---- MODULE Spec2Model ----
(***************************************************************************)
(* A model of salve's validating walkers: the top-level GrammarWalker     *)
(* (patterns/grammar.ts), the RefWalker, the NotAllowedWalker, the        *)
(* MisplacedElementWalker and the walkers of the patterns they drive.     *)
(***************************************************************************)
EXTENDS Integers, Sequences, FiniteSets, TLC

\* Deepest frame stack the model explores (start tags are not fired beyond).
MaxDepth == 3

(***************************************************************************)
(* Names and strings                                                       *)
(***************************************************************************)

\* new Name(ns, name)
Name(ns, name) == [kind |-> "Name", ns |-> ns, name |-> name]

\* Name.match
NameMatch(n, ns, name) == n.name = name /\ n.ns = ns

\* Name.asString / Base.toString: the JSON text of ns and name, which is
\* distinct for distinct (ns, name); the pair stands for that text.
NameToString(n) == <<n.ns, n.name>>

(***************************************************************************)
(* Name patterns (name_patterns.ts)                                        *)
(***************************************************************************)

\* The result 0 of intersection and subtract: no name at all.
Zero == [kind |-> "0"]

\* ``undefined`` as the except of an NsName or AnyName.
NoExcept == [kind |-> "undefined"]

\* An Error thrown by a method.
Thrown(msg) == [kind |-> "throw", msg |-> msg]

IsThrown(x) == x.kind = "throw"

IsZero(x) == x.kind = "0"

\* new NameChoice(a, b)
NameChoice(a, b) == [kind |-> "NameChoice", a |-> a, b |-> b]

\* new NsName(ns, except)
NsName(ns, except) == [kind |-> "NsName", ns |-> ns, except |-> except]

\* new AnyName(except)
AnyName(except) == [kind |-> "AnyName", except |-> except]

\* pattern.except !== undefined
HasExcept(p) == p.except.kind # "undefined"

RECURSIVE Match(_, _, _)
\* NameChoice.match
NameChoiceMatch(p, ns, name) == Match(p.a, ns, name) \/ Match(p.b, ns, name)

\* NsName.match
NsNameMatch(p, ns, name) ==
    p.ns = ns /\ ~(HasExcept(p) /\ Match(p.except, ns, name))

\* AnyName.match
AnyNameMatch(p, ns, name) == ~HasExcept(p) \/ ~Match(p.except, ns, name)

\* pattern.match(ns, name); 0 matches no name
Match(p, ns, name) ==
    CASE p.kind = "Name" -> NameMatch(p, ns, name)
      [] p.kind = "NameChoice" -> NameChoiceMatch(p, ns, name)
      [] p.kind = "NsName" -> NsNameMatch(p, ns, name)
      [] p.kind = "AnyName" -> AnyNameMatch(p, ns, name)
      [] p.kind = "0" -> FALSE

RECURSIVE ToArray(_)
\* pattern.toArray(): the names of a simple pattern, or null
ToArray(p) ==
    CASE p.kind = "Name" -> [null |-> FALSE, names |-> <<p>>]
      [] p.kind = "NameChoice" ->
            LET aArr == ToArray(p.a)
                bArr == ToArray(p.b)
            IN  IF aArr.null THEN aArr
                ELSE IF bArr.null THEN bArr
                ELSE [null |-> FALSE, names |-> aArr.names \o bArr.names]
      [] OTHER -> [null |-> TRUE, names |-> <<>>]

RECURSIVE MakeTreeFrom(_, _, _)
\* The loop of NameChoice.makeTree from index ix on.
MakeTreeFrom(top, names, ix) ==
    IF ix > Len(names) THEN top
    ELSE MakeTreeFrom(NameChoice(top, names[ix]), names, ix + 1)

\* NameChoice.makeTree
MakeTree(names) ==
    IF Len(names) = 0 THEN Thrown("trying to make a tree out of nothing")
    ELSE IF Len(names) > 1
    THEN MakeTreeFrom(NameChoice(names[1], names[2]), names, 3)
    ELSE names[1]

\* The key `{${name.ns}}${name.name}` of a name in the Map of
\* NsName.intersection: a local name holds no brace, so the key is distinct
\* for distinct (ns, name); the pair stands for that text.
MapKey(n) == <<n.ns, n.name>>

\* Array.from(new Map(names.map(name => [key, name])).values()): one name
\* per key, at the place of the key's first name.
UniqueNames(names) ==
    LET first(i) == \A j \in 1..(i - 1) : MapKey(names[j]) # MapKey(names[i])
        keep == {i \in 1..Len(names) : first(i)}
        RECURSIVE From(_)
        From(i) == IF i > Len(names) THEN <<>>
                   ELSE (IF i \in keep THEN <<names[i]>> ELSE <<>>) \o From(i + 1)
    IN  From(1)

\* a === 0 ? b : (b === 0 ? a : new NameChoice(a, b)), a and b computed in
\* that order, either of which may have thrown.
ChoiceOrZero(a, b) ==
    IF IsThrown(a) THEN a
    ELSE IF IsThrown(b) THEN b
    ELSE IF IsZero(a) THEN b
    ELSE IF IsZero(b) THEN a
    ELSE NameChoice(a, b)

RECURSIVE Intersection(_, _)
RECURSIVE NsNameSubtract(_, _)

\* Name.intersection
NameIntersection(this, other) ==
    IF IsZero(other) THEN Zero
    ELSE IF other.kind = "Name"
    THEN (IF NameMatch(this, other.ns, other.name) THEN this ELSE Zero)
    ELSE Intersection(other, this)

\* NameChoice.intersection
NameChoiceIntersection(this, other) ==
    IF IsZero(other) THEN Zero
    ELSE ChoiceOrZero(Intersection(this.a, other), Intersection(this.b, other))

\* NsName.intersection
NsNameIntersection(this, other) ==
    IF IsZero(other) THEN Zero
    ELSE IF other.kind = "Name"
    THEN IF this.ns # other.ns THEN Zero
         ELSE IF HasExcept(this)
         THEN LET x == Intersection(other, this.except)
              IN  IF IsThrown(x) THEN x ELSE IF IsZero(x) THEN other ELSE Zero
         ELSE other
    ELSE IF other.kind = "NsName"
    THEN IF this.ns # other.ns THEN Zero
         ELSE IF HasExcept(this) /\ HasExcept(other)
         THEN LET theseNames == ToArray(this.except)
                  otherNames == ToArray(other.except)
              IN  IF theseNames.null \/ otherNames.null
                  THEN Thrown("complex pattern found in NsName except")
                  ELSE LET names == UniqueNames(theseNames.names \o otherNames.names)
                           tree == MakeTree(names)
                       IN  IF IsThrown(tree) THEN tree ELSE NsName(this.ns, tree)
         ELSE IF HasExcept(other) THEN other ELSE this
    ELSE Intersection(other, this)

RECURSIVE ApplyRecursivelySubtract(_, _)
\* The callback NsName.subtract hands to applyRecursively.
SubtractChild(this, child) ==
    IF child.kind \notin {"Name", "NsName"}
    THEN Thrown("child is not Name or NsName")
    ELSE NsNameSubtract(this, child)

\* NameChoice.applyRecursively(child => this.subtract(child)) on choice c
ApplyRecursivelySubtract(c, this) ==
    LET newA == IF c.a.kind = "NameChoice" THEN ApplyRecursivelySubtract(c.a, this)
                ELSE SubtractChild(this, c.a)
        newB == IF c.b.kind = "NameChoice" THEN ApplyRecursivelySubtract(c.b, this)
                ELSE SubtractChild(this, c.b)
    IN  ChoiceOrZero(newA, newB)

\* NsName.subtract
NsNameSubtract(this, other) ==
    IF other.kind = "NameChoice" THEN ApplyRecursivelySubtract(other, this)
    ELSE IF this.ns # other.ns THEN this
    ELSE IF other.kind = "Name"
    THEN NsName(this.ns, IF ~HasExcept(this) THEN other
                         ELSE NameChoice(this.except, other))
    ELSE IF ~HasExcept(other) THEN Zero
    ELSE IF ~HasExcept(this) THEN other.except
    ELSE LET theseNames == ToArray(this.except)
             otherNames == ToArray(other.except)
         IN  IF theseNames.null \/ otherNames.null
             THEN Thrown("NsName contains an except pattern which is not simple.")
             ELSE LET result ==
                         SelectSeq(otherNames.names,
                                   LAMBDA n :
                                     ~\E i \in 1..Len(theseNames.names) :
                                         /\ n.ns = theseNames.names[i].ns
                                         /\ n.name = theseNames.names[i].name)
                  IN  IF Len(result) = 0 THEN Zero ELSE MakeTree(result)

\* AnyName.intersection
AnyNameIntersection(this, other) ==
    IF IsZero(other) THEN Zero
    ELSE IF ~HasExcept(this) THEN other
    ELSE IF other.kind = "Name"
    THEN LET x == Intersection(this.except, other)
         IN  IF IsThrown(x) THEN x ELSE IF IsZero(x) THEN other ELSE Zero
    ELSE IF other.kind = "NsName"
    THEN LET negation == Intersection(this.except, other)
         IN  IF IsThrown(negation) THEN negation
             ELSE IF IsZero(negation) THEN other
             ELSE NsNameSubtract(other, negation)
    ELSE IF other.kind = "AnyName"
    THEN IF HasExcept(other) /\ HasExcept(this)
         THEN AnyName(NameChoice(this.except, other.except))
         ELSE IF HasExcept(other) THEN other ELSE this
    ELSE Thrown("cannot compute intersection!")

\* p.intersection(q)
Intersection(p, q) ==
    CASE p.kind = "Name" -> NameIntersection(p, q)
      [] p.kind = "NameChoice" -> NameChoiceIntersection(p, q)
      [] p.kind = "NsName" -> NsNameIntersection(p, q)
      [] p.kind = "AnyName" -> AnyNameIntersection(p, q)

\* a || b on results of intersects, each "true", "false" or "throw": b is
\* not called when a is true.
OrElse(a, b) == IF a = "false" THEN b ELSE a

\* !a on a result of intersects
Negated(a) == IF a = "throw" THEN a ELSE IF a = "true" THEN "false" ELSE "true"

Bool(b) == IF b THEN "true" ELSE "false"

RECURSIVE Intersects(_, _)
\* Name.intersects
NameIntersects(this, other) ==
    IF other.kind = "Name" THEN Bool(NameMatch(this, other.ns, other.name))
    ELSE Intersects(other, this)

\* NameChoice.intersects
NameChoiceIntersects(this, other) ==
    OrElse(Intersects(this.a, other), Intersects(this.b, other))

\* NsName.intersects without its look at the except
NsNameIntersectsNoExcept(this, other) ==
    IF other.kind = "Name" THEN Bool(this.ns = other.ns)
    ELSE IF other.kind = "NsName" THEN Bool(this.ns = other.ns)
    ELSE Intersects(other, this)

\* NsName.intersects
NsNameIntersects(this, other) ==
    IF other.kind = "Name"
    THEN IF this.ns # other.ns THEN "false"
         ELSE IF ~HasExcept(this) THEN "true"
         ELSE Negated(Intersects(other, this.except))
    ELSE IF other.kind = "NsName" THEN Bool(this.ns = other.ns)
    ELSE Intersects(other, this)

\* AnyName.intersects
AnyNameIntersects(this, other) ==
    IF ~HasExcept(this) \/ other.kind = "AnyName" THEN "true"
    ELSE IF other.kind = "Name" THEN Negated(Intersects(this.except, other))
    ELSE IF other.kind = "NsName"
    THEN LET negation == Intersection(this.except, other)
         IN  IF IsThrown(negation) THEN "throw"
             ELSE IF IsZero(negation) THEN "true"
             ELSE LET d == NsNameSubtract(other, negation)
                  IN  IF IsThrown(d) THEN "throw" ELSE Bool(~IsZero(d))
    ELSE "throw"

\* p.intersects(q): "true", "false", or "throw" for a thrown Error
Intersects(p, q) ==
    CASE p.kind = "Name" -> NameIntersects(p, q)
      [] p.kind = "NameChoice" -> NameChoiceIntersects(p, q)
      [] p.kind = "NsName" -> NsNameIntersects(p, q)
      [] p.kind = "AnyName" -> AnyNameIntersects(p, q)

RECURSIVE WildcardMatch(_, _, _)
\* pattern.wildcardMatch(ns, name): false for a Name, match for an NsName
\* and an AnyName, either side's for a NameChoice
WildcardMatch(p, ns, name) ==
    CASE p.kind = "Name" -> FALSE
      [] p.kind = "NameChoice" ->
            WildcardMatch(p.a, ns, name) \/ WildcardMatch(p.b, ns, name)
      [] p.kind = "NsName" -> NsNameMatch(p, ns, name)
      [] p.kind = "AnyName" -> AnyNameMatch(p, ns, name)

\* A text is a sequence of characters; SP is whitespace, "x" is not.
SP == " "
NonWsChars == {"x"}

\* /\S/.test(text)
HasNonWs(text) == \E i \in 1..Len(text) : text[i] \in NonWsChars

\* ``undefined`` in the suspendedWs slot.
Undefined == <<"undefined">>

(***************************************************************************)
(* The grammar under validation                                            *)
(***************************************************************************)

PEmpty == [k |-> "Empty"]
PText == [k |-> "Text"]
PNotAllowed == [k |-> "NotAllowed"]
PRef(d) == [k |-> "Ref", name |-> d]
PAttribute(n) == [k |-> "Attribute", name |-> n]
PChoice(a, b) == [k |-> "Choice", a |-> a, b |-> b]
PGroup(a, b) == [k |-> "Group", a |-> a, b |-> b]

\* Grammar.definitions: define name -> Element(name class, content pattern).
\*   A1 = element a { attribute x { text }?, ref B }
\*   A2 = element a { (ref C)? }
\*   A3 = element a { attribute x { text }?, ref C }
\*   B  = element b { text }
\*   C  = element c { (ref N)? }
\*   N  = element n { notAllowed }
GrammarDefinitions ==
    [d \in {"A1", "A2", "A3", "B", "C", "N"} |->
        CASE d = "A1" -> [name |-> Name("", "a"),
                          pat |-> PGroup(PChoice(PAttribute(Name("", "x")), PEmpty),
                                         PRef("B"))]
          [] d = "A2" -> [name |-> Name("", "a"),
                          pat |-> PChoice(PRef("C"), PEmpty)]
          [] d = "A3" -> [name |-> Name("", "a"),
                          pat |-> PGroup(PChoice(PAttribute(Name("", "x")), PEmpty),
                                         PRef("C"))]
          [] d = "B"  -> [name |-> Name("", "b"), pat |-> PText]
          [] d = "C"  -> [name |-> Name("", "c"),
                          pat |-> PChoice(PRef("N"), PEmpty)]
          [] d = "N"  -> [name |-> Name("", "n"), pat |-> PNotAllowed]]

\* Grammar.definitions iterated in insertion order.
DefinitionOrder == <<"A1", "A2", "A3", "B", "C", "N">>

\* Grammar.start: a | a | a, one ref per definition of a
GrammarStart == PChoice(PChoice(PRef("A1"), PRef("A2")), PRef("A3"))

\* Element.notAllowed
ElementNotAllowed(d) == GrammarDefinitions[d].pat.k = "NotAllowed"

\* Grammar.elementDefinitions[key]: the defines whose element's name class
\* has that string, in definition order; <<>> stands for ``undefined``.
ElementDefinitions(key) ==
    SelectSeq(DefinitionOrder,
              LAMBDA d : NameToString(GrammarDefinitions[d].name) = key)

(***************************************************************************)
(* Events, errors and walker results                                       *)
(***************************************************************************)

\* An event: fireEvent's name and params. params[0], params[1] are ns and
\* local; the attribute triples of startTagAndAttributes are attrs; the text
\* of a text event and the value of an attribute event are text.
Event(name, ns, local, attrs, text) ==
    [name |-> name, ns |-> ns, local |-> local, attrs |-> attrs, text |-> text]

IsStartTag(name) == name \in {"enterStartTag", "startTagAndAttributes"}

IsAttributeEvent(name) ==
    name \in {"attributeName", "attributeValue", "attributeNameAndValue"}

NoName == Name("-", "-")

\* new ValidationError(msg), new ElementNameError(msg, name),
\* new AttributeNameError(msg, name)
ValidationError(msg) == [cls |-> "ValidationError", msg |-> msg, name |-> NoName]
ElementNameError(msg, n) == [cls |-> "ElementNameError", msg |-> msg, name |-> n]
AttributeNameError(msg, n) == [cls |-> "AttributeNameError", msg |-> msg, name |-> n]

\* new InternalFireEventResult(matched, errors, refs) together with the state
\* the walker is left in; <<>> stands for ``undefined`` errors and refs.
Result(matched, errors, refs, w) ==
    [matched |-> matched, errors |-> errors, refs |-> refs, w |-> w]

\* InternalFireEventResult.fromEndResult
FromEndResult(errs, w) == Result(errs = <<>>, errs, <<>>, w)

(***************************************************************************)
(* Walkers                                                                 *)
(***************************************************************************)

\* new MisplacedElementWalker()
MisplacedElementWalker == [k |-> "Misplaced"]

\* NotAllowed.newWalker: the singleton
NotAllowedWalker == [k |-> "NotAllowed", canEnd |-> TRUE, canEndAttribute |-> TRUE]

\* new RefWalker(ref, element, element.name, event, canEndAttribute, canEnd)
RefWalker(d, canEnd) == [k |-> "Ref", def |-> d, canEnd |-> canEnd]

\* Ref.hasEmptyPattern
RefHasEmptyPattern(d) == FALSE

RECURSIVE NewWalker(_)
\* Ref.newWalker
RefNewWalker(d) ==
    IF ElementNotAllowed(d)
    THEN NewWalker(GrammarDefinitions[d].pat)
    ELSE RefWalker(d, FALSE)

\* Pattern.newWalker of each pattern variant
NewWalker(p) ==
    CASE p.k = "Ref" -> RefNewWalker(p.name)
      [] p.k = "NotAllowed" -> NotAllowedWalker
      [] p.k = "Empty" -> [k |-> "Empty"]
      [] p.k = "Text" -> [k |-> "Text"]
      [] p.k = "Attribute" ->
            [k |-> "Attribute", name |-> p.name, seenName |-> FALSE, done |-> FALSE]
      [] p.k = "Choice" ->
            [k |-> "Choice", a |-> NewWalker(p.a), b |-> NewWalker(p.b),
             liveA |-> TRUE, liveB |-> TRUE]
      [] p.k = "Group" ->
            [k |-> "Group", a |-> NewWalker(p.a), b |-> NewWalker(p.b)]

\* Element.newWalker(boundName)
ElementNewWalker(d, boundName) ==
    [k |-> "Element", def |-> d, boundName |-> boundName,
     walker |-> NewWalker(GrammarDefinitions[d].pat),
     endedStartTag |-> FALSE, canEnd |-> FALSE]

RECURSIVE CanEnd(_)
\* walker.canEnd
CanEnd(w) ==
    CASE w.k \in {"Misplaced", "Empty", "Text"} -> TRUE
      [] w.k \in {"Ref", "NotAllowed"} -> w.canEnd
      [] w.k = "Attribute" -> w.done
      [] w.k = "Choice" -> (w.liveA /\ CanEnd(w.a)) \/ (w.liveB /\ CanEnd(w.b))
      [] w.k = "Group" -> CanEnd(w.a) /\ CanEnd(w.b)
      [] w.k = "Element" -> w.canEnd

RECURSIVE CanEndAttribute(_)
\* walker.canEndAttribute
CanEndAttribute(w) ==
    CASE w.k \in {"Misplaced", "Empty", "Text", "Ref"} -> TRUE
      [] w.k = "NotAllowed" -> w.canEndAttribute
      [] w.k = "Attribute" -> w.done
      [] w.k = "Choice" ->
            (w.liveA /\ CanEndAttribute(w.a)) \/ (w.liveB /\ CanEndAttribute(w.b))
      [] w.k = "Group" -> CanEndAttribute(w.a) /\ CanEndAttribute(w.b)
      [] w.k = "Element" -> FALSE

\* RefWalker.end asking for the tag in every state
RefWalkerEndAlways(w) ==
    <<ElementNameError("tag required", GrammarDefinitions[w.def].name)>>

\* RefWalker.end
RefWalkerEnd(w) ==
    IF ~w.canEnd
    THEN <<ElementNameError("tag required", GrammarDefinitions[w.def].name)>>
    ELSE <<>>

\* RefWalker.endAttributes
RefWalkerEndAttributes(w) == <<>>

\* NotAllowedWalker.end, NotAllowedWalker.endAttributes
NotAllowedWalkerEnd == <<>>

\* MisplacedElementWalker.end
MisplacedElementWalkerEnd == <<>>

RECURSIVE WalkerEnd(_)
\* walker.end(): <<>> stands for ``false``
WalkerEnd(w) ==
    CASE w.k = "Misplaced" -> MisplacedElementWalkerEnd
      [] w.k = "NotAllowed" -> NotAllowedWalkerEnd
      [] w.k = "Ref" -> RefWalkerEnd(w)
      [] w.k \in {"Empty", "Text"} -> <<>>
      [] w.k = "Attribute" ->
            IF w.done THEN <<>>
            ELSE <<AttributeNameError("attribute required", w.name)>>
      [] w.k = "Choice" ->
            IF CanEnd(w) THEN <<>>
            ELSE (IF w.liveA THEN WalkerEnd(w.a) ELSE <<>>)
                 \o (IF w.liveB THEN WalkerEnd(w.b) ELSE <<>>)
      [] w.k = "Group" -> WalkerEnd(w.a) \o WalkerEnd(w.b)
      [] w.k = "Element" ->
            IF w.canEnd THEN <<>>
            ELSE <<ElementNameError("tag not closed", w.boundName)>>

RECURSIVE WalkerEndAttributes(_)
\* walker.endAttributes() / walker.end(true)
WalkerEndAttributes(w) ==
    CASE w.k = "Ref" -> RefWalkerEndAttributes(w)
      [] w.k \in {"Misplaced", "NotAllowed", "Empty", "Text", "Element"} -> <<>>
      [] w.k = "Attribute" ->
            IF w.done THEN <<>>
            ELSE <<AttributeNameError("attribute required", w.name)>>
      [] w.k = "Choice" ->
            IF CanEndAttribute(w) THEN <<>>
            ELSE (IF w.liveA THEN WalkerEndAttributes(w.a) ELSE <<>>)
                 \o (IF w.liveB THEN WalkerEndAttributes(w.b) ELSE <<>>)
      [] w.k = "Group" -> WalkerEndAttributes(w.a) \o WalkerEndAttributes(w.b)

\* A sentinel walker that lets text through to diagnose as well.
MisplacedElementWalkerFireEventNoText(w, e) ==
    IF e.name \in {"enterStartTag", "startTagAndAttributes", "text"}
    THEN Result(FALSE, <<>>, <<>>, w)
    ELSE Result(TRUE, <<>>, <<>>, w)

\* MisplacedElementWalker.fireEvent
MisplacedElementWalkerFireEvent(w, e) ==
    IF e.name \in {"enterStartTag", "startTagAndAttributes"}
    THEN Result(FALSE, <<>>, <<>>, w)
    ELSE Result(TRUE, <<>>, <<>>, w)

\* A NotAllowedWalker that, like a RefWalker, flips a flag of its own when an
\* event is fired on it.
NotAllowedWalkerFireEventFlip(w, e) ==
    Result(FALSE, <<>>, <<>>, [w EXCEPT !.canEnd = FALSE])

\* NotAllowedWalker.fireEvent
NotAllowedWalkerFireEvent(w, e) == Result(FALSE, <<>>, <<>>, w)

\* RefWalker.fireEvent without its test of canEnd
RefWalkerFireEventAgain(w, e) ==
    IF /\ e.name \in {"enterStartTag", "startTagAndAttributes"}
       /\ NameMatch(GrammarDefinitions[w.def].name, e.ns, e.local)
    THEN Result(TRUE, <<>>, <<w.def>>, [w EXCEPT !.canEnd = TRUE])
    ELSE Result(FALSE, <<>>, <<>>, w)

\* RefWalker.fireEvent
RefWalkerFireEvent(w, e) ==
    IF /\ ~w.canEnd
       /\ e.name \in {"enterStartTag", "startTagAndAttributes"}
       /\ NameMatch(GrammarDefinitions[w.def].name, e.ns, e.local)
    THEN Result(TRUE, <<>>, <<w.def>>, [w EXCEPT !.canEnd = TRUE])
    ELSE Result(FALSE, <<>>, <<>>, w)

\* AttributeWalker.fireEvent
AttributeWalkerFireEvent(w, e) ==
    CASE /\ e.name = "attributeName" /\ ~w.seenName /\ ~w.done
         /\ NameMatch(w.name, e.ns, e.local)
            -> Result(TRUE, <<>>, <<>>, [w EXCEPT !.seenName = TRUE])
      [] /\ e.name = "attributeValue" /\ w.seenName /\ ~w.done
            -> Result(TRUE, <<>>, <<>>, [w EXCEPT !.done = TRUE])
      [] /\ e.name = "attributeNameAndValue" /\ ~w.seenName /\ ~w.done
         /\ NameMatch(w.name, e.ns, e.local)
            -> Result(TRUE, <<>>, <<>>, [w EXCEPT !.seenName = TRUE, !.done = TRUE])
      [] OTHER -> Result(FALSE, <<>>, <<>>, w)

RECURSIVE WalkerFire(_, _)
\* ChoiceWalker.fireEvent
ChoiceWalkerFireEvent(w, e) ==
    LET ra == IF w.liveA THEN WalkerFire(w.a, e) ELSE Result(FALSE, <<>>, <<>>, w.a)
        rb == IF w.liveB THEN WalkerFire(w.b, e) ELSE Result(FALSE, <<>>, <<>>, w.b)
    IN  IF ra.matched \/ rb.matched
        THEN Result(TRUE, <<>>,
                    (IF ra.matched THEN ra.refs ELSE <<>>)
                        \o (IF rb.matched THEN rb.refs ELSE <<>>),
                    [w EXCEPT !.a = ra.w, !.b = rb.w,
                              !.liveA = ra.matched, !.liveB = rb.matched])
        ELSE Result(FALSE, ra.errors \o rb.errors, <<>>, w)

\* GroupWalker.fireEvent
GroupWalkerFireEvent(w, e) ==
    LET ra == WalkerFire(w.a, e)
        aDone == IF IsAttributeEvent(e.name) THEN CanEndAttribute(w.a) ELSE CanEnd(w.a)
        rb == WalkerFire(w.b, e)
    IN  IF ra.matched
        THEN Result(TRUE, <<>>, ra.refs, [w EXCEPT !.a = ra.w])
        ELSE IF aDone
             THEN IF rb.matched
                  THEN Result(TRUE, <<>>, rb.refs, [w EXCEPT !.b = rb.w])
                  ELSE Result(FALSE, ra.errors \o rb.errors, <<>>, w)
             ELSE Result(FALSE, ra.errors, <<>>, w)

\* ElementWalker.fireEvent
ElementWalkerFireEvent(w, e) ==
    IF w.endedStartTag
    THEN CASE e.name = "endTag" ->
                IF NameMatch(w.boundName, e.ns, e.local)
                THEN FromEndResult(WalkerEnd(w.walker), [w EXCEPT !.canEnd = TRUE])
                ELSE Result(FALSE, <<>>, <<>>, w)
           [] e.name = "text" \/ IsStartTag(e.name) ->
                LET r == WalkerFire(w.walker, e)
                IN  Result(r.matched, r.errors, r.refs, [w EXCEPT !.walker = r.w])
           [] OTHER -> Result(FALSE, <<>>, <<>>, w)
    ELSE CASE e.name = "leaveStartTag" ->
                FromEndResult(WalkerEndAttributes(w.walker),
                              [w EXCEPT !.endedStartTag = TRUE])
           [] IsAttributeEvent(e.name) ->
                LET r == WalkerFire(w.walker, e)
                IN  Result(r.matched, r.errors, r.refs, [w EXCEPT !.walker = r.w])
           [] OTHER -> Result(FALSE, <<>>, <<>>, w)

\* walker.fireEvent(name, params, nameResolver), by walker variant
WalkerFire(w, e) ==
    CASE w.k = "Misplaced" -> MisplacedElementWalkerFireEvent(w, e)
      [] w.k = "NotAllowed" -> NotAllowedWalkerFireEvent(w, e)
      [] w.k = "Ref" -> RefWalkerFireEvent(w, e)
      [] w.k = "Empty" ->
            Result(e.name = "text" /\ ~HasNonWs(e.text), <<>>, <<>>, w)
      [] w.k = "Text" -> Result(e.name = "text", <<>>, <<>>, w)
      [] w.k = "Attribute" -> AttributeWalkerFireEvent(w, e)
      [] w.k = "Choice" -> ChoiceWalkerFireEvent(w, e)
      [] w.k = "Group" -> GroupWalkerFireEvent(w, e)
      [] w.k = "Element" -> ElementWalkerFireEvent(w, e)

RECURSIVE FeedAttributes(_, _, _)
\* The attribute loop of ElementWalker.initWithAttributes: fire
\* attributeNameAndValue for each triple from index i, stop at a rejection.
FeedAttributes(w, attrs, i) ==
    IF i > Len(attrs)
    THEN Result(TRUE, <<>>, <<>>, w)
    ELSE LET r == WalkerFire(w, Event("attributeNameAndValue", attrs[i].ns,
                                      attrs[i].name, <<>>, attrs[i].value))
         IN  IF r.matched THEN FeedAttributes(r.w, attrs, i + 1) ELSE r

\* ElementWalker.initWithAttributes(params, nameResolver)
InitWithAttributes(w, e) ==
    LET fed == FeedAttributes(w, e.attrs, 1)
    IN  IF fed.matched
        THEN WalkerFire(fed.w, Event("leaveStartTag", "", "", <<>>, <<>>))
        ELSE fed

(***************************************************************************)
(* GrammarWalker                                                           *)
(***************************************************************************)

VARIABLES
    elementWalkerStack,     \* IWalker[][]: the frames, root first
    misplacedDepth,         \* depth inside a misplaced-element region
    swallowAttributeValue,  \* _swallowAttributeValue
    suspendedWs,            \* the buffered whitespace, or Undefined
    ignoreNextWs,           \* set by endTag, cleared by the other non-text events
    ev,                     \* the event of the last fireEvent call
    ret,                    \* what that call returned or threw
    log,                    \* what that call showed to the walkers
    cloneRun,               \* a clone of the walker, the events fired on it
                            \* and what it returned for them
    plainRun,               \* a second walker, fed the same events but for
                            \* the whitespace, and what it returned last
    lone,                   \* a pattern, a walker of it used on its own, and
                            \* what its last fireEvent returned
    names,                  \* two name patterns and their intersection
    tree,                   \* a forest of Elements and the last mutator call
    simp,                   \* a schema tree, the simplification step run on
                            \* it and what the step returned
    validator,              \* a Validator whose walker is the GrammarWalker
                            \* above, and what its last callback did
    driver                  \* the parser driving the Validator: its last
                            \* callback, the text and the elements pending

vars == <<elementWalkerStack, misplacedDepth, swallowAttributeValue,
          suspendedWs, ignoreNextWs, ev, ret, log, cloneRun, plainRun, lone,
          names, tree, simp, validator, driver>>

\* The fields of a GrammarWalker as one value.
WalkerState(stack, depth, swallow, ws, ignore) ==
    [stack |-> stack, misplacedDepth |-> depth, swallow |-> swallow,
     suspendedWs |-> ws, ignoreNextWs |-> ignore]

\* GrammarWalker.make
Make == WalkerState(<< <<NewWalker(GrammarStart)>> >>, 0, FALSE, Undefined, FALSE)

\* fireEvent's outcomes: ``false``, an array of errors, or a thrown Error.
RetFalse == [t |-> "false", errors |-> <<>>, msg |-> ""]
RetErrors(errs) == [t |-> "errors", errors |-> errs, msg |-> ""]
RetThrow(msg) == [t |-> "throw", errors |-> <<>>, msg |-> msg]

\* elementWalkerStack[elementWalkerStack.length - 1]
Top(stack) == stack[Len(stack)]
\* elementWalkerStack[last] = frame
SetTop(stack, frame) == [stack EXCEPT ![Len(stack)] = frame]
\* elementWalkerStack.pop()
Pop(stack) == SubSeq(stack, 1, Len(stack) - 1)

\* The results of firing e on each walker of a frame, in order.
FrameResults(walkers, e) == [i \in 1..Len(walkers) |-> WalkerFire(walkers[i], e)]

RECURSIVE Remaining(_, _)
\* remainingWalkers: the walkers whose result matched, in order.
Remaining(rs, i) ==
    IF i > Len(rs) THEN <<>>
    ELSE (IF rs[i].matched THEN <<rs[i].w>> ELSE <<>>) \o Remaining(rs, i + 1)

RECURSIVE CollectRefs(_, _)
\* refs.push(...result.refs) over the matching walkers.
CollectRefs(rs, i) ==
    IF i > Len(rs) THEN <<>>
    ELSE (IF rs[i].matched THEN rs[i].refs ELSE <<>>) \o CollectRefs(rs, i + 1)

RECURSIVE CollectErrors(_, _, _)
\* errors.push(...result.errors) for a rejecting walker, while no walker
\* before it has matched.
CollectErrors(rs, i, anyMatched) ==
    IF i > Len(rs) THEN <<>>
    ELSE (IF ~rs[i].matched /\ ~anyMatched THEN rs[i].errors ELSE <<>>)
         \o CollectErrors(rs, i + 1, anyMatched \/ rs[i].matched)

\* GrammarWalker._fireSuspendedWsOnCurrentWalkers
FireSuspendedWsOnCurrentWalkers(stack, ws) ==
    LET walkers == Top(stack)
        rs == FrameResults(walkers, Event("text", "", "", <<>>, ws))
        remainingWalkers == Remaining(rs, 1)
    IN  IF Len(walkers) = 1
        THEN [stack |-> SetTop(stack, <<rs[1].w>>), matched |-> rs[1].matched]
        ELSE IF Len(remainingWalkers) # 0
             THEN [stack |-> SetTop(stack, remainingWalkers), matched |-> TRUE]
             ELSE [stack |-> SetTop(stack, [i \in 1..Len(rs) |-> rs[i].w]),
                   matched |-> FALSE]

\* _fireOnCurrentWalkers with the filter left out: every walker stays in
\* the frame even when some matched.
FireOnCurrentWalkersKeepAll(stack, e) ==
    LET walkers == Top(stack)
        rs == FrameResults(walkers, e)
    IN  IF Len(walkers) = 1
        THEN [stack |-> SetTop(stack, <<rs[1].w>>), matched |-> rs[1].matched,
              errors |-> rs[1].errors, refs |-> rs[1].refs]
        ELSE IF Len(Remaining(rs, 1)) # 0
             THEN [stack |-> SetTop(stack, [i \in 1..Len(rs) |-> rs[i].w]),
                   matched |-> TRUE, errors |-> <<>>, refs |-> CollectRefs(rs, 1)]
             ELSE [stack |-> SetTop(stack, [i \in 1..Len(rs) |-> rs[i].w]),
                   matched |-> FALSE, errors |-> CollectErrors(rs, 1, FALSE),
                   refs |-> <<>>]

\* _fireOnCurrentWalkers storing the walkers that matched even when none
\* did.
FireOnCurrentWalkersDropAll(stack, e) ==
    LET walkers == Top(stack)
        rs == FrameResults(walkers, e)
        remainingWalkers == Remaining(rs, 1)
    IN  IF Len(walkers) = 1
        THEN [stack |-> SetTop(stack, <<rs[1].w>>), matched |-> rs[1].matched,
              errors |-> rs[1].errors, refs |-> rs[1].refs]
        ELSE [stack |-> SetTop(stack, remainingWalkers),
              matched |-> Len(remainingWalkers) # 0,
              errors |-> IF Len(remainingWalkers) # 0 THEN <<>>
                         ELSE CollectErrors(rs, 1, FALSE),
              refs |-> IF Len(remainingWalkers) # 0 THEN CollectRefs(rs, 1)
                       ELSE <<>>]

\* GrammarWalker._fireOnCurrentWalkers
FireOnCurrentWalkers(stack, e) ==
    LET walkers == Top(stack)
        rs == FrameResults(walkers, e)
        remainingWalkers == Remaining(rs, 1)
        errors == CollectErrors(rs, 1, FALSE)
        refs == CollectRefs(rs, 1)
    IN  IF Len(walkers) = 1
        THEN [stack |-> SetTop(stack, <<rs[1].w>>), matched |-> rs[1].matched,
              errors |-> rs[1].errors, refs |-> rs[1].refs]
        ELSE IF Len(remainingWalkers) # 0
             THEN [stack |-> SetTop(stack, remainingWalkers), matched |-> TRUE,
                   errors |-> <<>>, refs |-> refs]
             ELSE [stack |-> SetTop(stack, [i \in 1..Len(rs) |-> rs[i].w]),
                   matched |-> FALSE, errors |-> errors, refs |-> <<>>]

\* The walkers _processRefs creates, one per ref, each initialised with the
\* attributes when the event is startTagAndAttributes.
RefWalkerResults(refs, e) ==
    [i \in 1..Len(refs) |->
        LET walker == ElementNewWalker(refs[i], Name(e.ns, e.local))
        IN  IF e.name = "startTagAndAttributes"
            THEN InitWithAttributes(walker, e)
            ELSE Result(TRUE, <<>>, <<>>, walker)]

\* GrammarWalker._processRefs
ProcessRefs(stack, e, refs) ==
    LET rs == RefWalkerResults(refs, e)
    IN  IF \E i \in 1..Len(rs) : ~rs[i].matched
        THEN [stack |-> stack, threw |-> TRUE]
        ELSE [stack |-> Append(stack, [i \in 1..Len(rs) |-> rs[i].w]),
              threw |-> FALSE]

\* The start-tag case of diagnose with the push left out of the
\* "once in dumb mode" branch.
DiagnoseStartTagNoPush(s, e, wsMatch) ==
    LET elName == Name(e.ns, e.local)
        candidates == ElementDefinitions(NameToString(elName))
        newWalker == ElementNewWalker(candidates[1], elName)
        init == InitWithAttributes(newWalker, e)
        error == ElementNameError(
                    IF e.name = "enterStartTag"
                    THEN "tag not allowed here"
                    ELSE "tag not allowed here with these attributes", elName)
    IN  IF s.misplacedDepth > 0
        THEN [s |-> [s EXCEPT !.misplacedDepth = @ + 1],
              ret |-> IF wsMatch THEN RetFalse
                      ELSE RetErrors(<<ValidationError("text not allowed here")>>)]
        ELSE IF Len(candidates) = 1
             THEN IF e.name = "startTagAndAttributes"
                  THEN IF ~init.matched
                       THEN [s |-> [s EXCEPT !.stack = Append(@, <<init.w>>)],
                             ret |-> RetThrow("internal error: the inferred element does not accept its initial event")]
                       ELSE [s |-> [s EXCEPT !.stack = Append(@, <<init.w>>)],
                             ret |-> RetErrors(<<error>>)]
                  ELSE [s |-> [s EXCEPT !.stack = Append(@, <<newWalker>>)],
                        ret |-> RetErrors(<<error>>)]
             ELSE [s |-> [s EXCEPT !.misplacedDepth = @ + 1,
                                   !.stack = Append(@, <<MisplacedElementWalker>>)],
                   ret |-> RetErrors(<<error>>)]

\* The start-tag case of GrammarWalker.diagnose
DiagnoseStartTag(s, e, wsMatch) ==
    LET elName == Name(e.ns, e.local)
        candidates == ElementDefinitions(NameToString(elName))
        newWalker == ElementNewWalker(candidates[1], elName)
        init == InitWithAttributes(newWalker, e)
        error == ElementNameError(
                    IF e.name = "enterStartTag"
                    THEN "tag not allowed here"
                    ELSE "tag not allowed here with these attributes", elName)
    IN  IF s.misplacedDepth > 0
        THEN [s |-> [s EXCEPT !.misplacedDepth = @ + 1,
                              !.stack = Append(@, <<MisplacedElementWalker>>)],
              ret |-> IF wsMatch THEN RetFalse
                      ELSE RetErrors(<<ValidationError("text not allowed here")>>)]
        ELSE IF Len(candidates) = 1
             THEN IF e.name = "startTagAndAttributes"
                  THEN IF ~init.matched
                       THEN [s |-> [s EXCEPT !.stack = Append(@, <<init.w>>)],
                             ret |-> RetThrow("internal error: the inferred element does not accept its initial event")]
                       ELSE [s |-> [s EXCEPT !.stack = Append(@, <<init.w>>)],
                             ret |-> RetErrors(<<error>>)]
                  ELSE [s |-> [s EXCEPT !.stack = Append(@, <<newWalker>>)],
                        ret |-> RetErrors(<<error>>)]
             ELSE [s |-> [s EXCEPT !.misplacedDepth = @ + 1,
                                   !.stack = Append(@, <<MisplacedElementWalker>>)],
                   ret |-> RetErrors(<<error>>)]

\* GrammarWalker.diagnose
Diagnose(s, e, wsMatch) ==
    CASE IsStartTag(e.name) -> DiagnoseStartTag(s, e, wsMatch)
      [] e.name = "endTag" ->
            [s |-> s,
             ret |-> RetErrors(<<ElementNameError("unexpected end tag",
                                                  Name(e.ns, e.local))>>)]
      [] e.name = "attributeName" ->
            [s |-> [s EXCEPT !.swallow = TRUE],
             ret |-> RetErrors(<<AttributeNameError("attribute not allowed here",
                                                    Name(e.ns, e.local))>>)]
      [] e.name = "attributeNameAndValue" ->
            [s |-> s,
             ret |-> RetErrors(<<AttributeNameError("attribute not allowed here",
                                                    Name(e.ns, e.local))>>)]
      [] e.name = "attributeValue" ->
            [s |-> s,
             ret |-> RetErrors(<<ValidationError("unexpected attributeValue event")>>)]
      [] e.name = "text" ->
            [s |-> s,
             ret |-> RetErrors(<<ValidationError("text not allowed here")>>)]
      [] OTHER ->
            [s |-> s,
             ret |-> RetThrow("unexpected event type in GrammarWalker's fireEvent")]

\* The text case of fireEvent's switch: is the text buffered (or refused as
\* empty) instead of dispatched?
IsWhitespaceText(e) == e.name = "text" /\ ~HasNonWs(e.text)

\* The whitespace case falling through to the switch's default, which
\* clears ignoreNextWs.
BufferWhitespaceClearIgnore(s, e) ==
    [s EXCEPT !.suspendedWs = e.text, !.ignoreNextWs = FALSE]

\* this.suspendedWs = text; return false
BufferWhitespace(s, e) == [s EXCEPT !.suspendedWs = e.text]

\* The endTag case without the test of ignoreNextWs.
ShouldFlushWsAlways(s, e) == e.name = "endTag" /\ s.suspendedWs # Undefined

\* The endTag case of fireEvent's switch: is the buffered whitespace fired?
ShouldFlushWs(s, e) ==
    e.name = "endTag" /\ ~s.ignoreNextWs /\ s.suspendedWs # Undefined

\* ignoreNextWs after fireEvent's switch
NextIgnoreWs(s, e) ==
    CASE e.name = "endTag" -> TRUE
      [] e.name = "text" -> s.ignoreNextWs
      [] OTHER -> FALSE

\* The swallow branch without the reset of the flag.
SwallowKeepFlag(s, e) ==
    [s |-> s,
     ret |-> IF e.name = "attributeValue" THEN RetFalse
             ELSE RetErrors(<<ValidationError("attribute value required")>>)]

\* The swallow branch running the endTag block before it returns.
SwallowAndPop(s, e) ==
    [s |-> IF e.name = "endTag"
           THEN [s EXCEPT !.swallow = FALSE,
                          !.stack = IF Len(@) > 1 THEN Pop(@) ELSE @,
                          !.misplacedDepth = IF @ > 0 THEN @ - 1 ELSE @]
           ELSE [s EXCEPT !.swallow = FALSE],
     ret |-> IF e.name = "attributeValue" THEN RetFalse
             ELSE RetErrors(<<ValidationError("attribute value required")>>)]

\* The swallow branch of fireEvent: the flag is cleared and the event is
\* answered without being dispatched.
Swallow(s, e) ==
    [s |-> [s EXCEPT !.swallow = FALSE],
     ret |-> IF e.name = "attributeValue" THEN RetFalse
             ELSE RetErrors(<<ValidationError("attribute value required")>>)]

\* The endTag block popping only when the top frame accepted the endTag.
AfterDispatchPopIfMatched(s, fr, e) ==
    IF e.name = "endTag"
    THEN [s EXCEPT !.stack = IF Len(fr.stack) > 1 /\ fr.matched
                             THEN Pop(fr.stack) ELSE fr.stack,
                   !.misplacedDepth = IF @ > 0 THEN @ - 1 ELSE @]
    ELSE [s EXCEPT !.stack = fr.stack]

\* The endTag block without the guard that keeps the root frame.
AfterDispatchPopRoot(s, fr, e) ==
    IF e.name = "endTag"
    THEN [s EXCEPT !.stack = Pop(fr.stack),
                   !.misplacedDepth = IF @ > 0 THEN @ - 1 ELSE @]
    ELSE [s EXCEPT !.stack = fr.stack]

\* The endTag block popping without counting misplacedDepth down.
AfterDispatchKeepDepth(s, fr, e) ==
    IF e.name = "endTag"
    THEN [s EXCEPT !.stack = IF Len(fr.stack) > 1 THEN Pop(fr.stack) ELSE fr.stack]
    ELSE [s EXCEPT !.stack = fr.stack]

\* The endTag block after the dispatch, on the stack the dispatch left: pop,
\* but not the root frame, and count down misplacedDepth.
AfterDispatch(s, fr, e) ==
    IF e.name = "endTag"
    THEN [s EXCEPT !.stack = IF Len(fr.stack) > 1 THEN Pop(fr.stack) ELSE fr.stack,
                   !.misplacedDepth = IF @ > 0 THEN @ - 1 ELSE @]
    ELSE [s EXCEPT !.stack = fr.stack]

\* A dispatch that did not happen.
NoDispatch == [stack |-> << <<>> >>, matched |-> FALSE, errors |-> <<>>, refs |-> <<>>]

\* What one fireEvent call did, for the properties below: the stack depth,
\* misplacedDepth and swallow flag when the call began (pre), whether the buffered whitespace was
\* fired on the top frame, whether the event was dispatched, the frame it
\* was dispatched to, and what _fireOnCurrentWalkers made of it.
Log(s, wsFired, dispatched, frame, fr) ==
    [pre |-> [depth |-> Len(s.stack), misplacedDepth |-> s.misplacedDepth,
              swallow |-> s.swallow],
     wsFired |-> wsFired, dispatched |-> dispatched, frame |-> frame,
     frameAfter |-> Top(fr.stack), matched |-> fr.matched,
     errors |-> fr.errors, refs |-> fr.refs]

\* GrammarWalker.fireEvent: the walker's state after the call, the value
\* returned or the Error thrown, and the log of the call.
FireEvent(s, e) ==
    LET flush == ShouldFlushWs(s, e)
        wsr == FireSuspendedWsOnCurrentWalkers(s.stack, s.suspendedWs)
        wsMatch == IF flush THEN wsr.matched ELSE TRUE
        s1 == [s EXCEPT !.stack = IF flush THEN wsr.stack ELSE @,
                        !.ignoreNextWs = NextIgnoreWs(s, e),
                        !.suspendedWs = Undefined]
        sw == Swallow(s1, e)
        fr == FireOnCurrentWalkers(s1.stack, e)
        dlog == Log(s, flush, TRUE, Top(s1.stack), fr)
        s2 == AfterDispatch(s1, fr, e)
        pr == ProcessRefs(s2.stack, e, fr.refs)
        dg == Diagnose(s2, e, wsMatch)
    IN  IF IsWhitespaceText(e)
        THEN IF e.text = <<>>
             THEN [s |-> s, log |-> Log(s, FALSE, FALSE, <<>>, NoDispatch),
                   ret |-> RetThrow("firing empty text events makes no sense")]
             ELSE [s |-> BufferWhitespace(s, e),
                   log |-> Log(s, FALSE, FALSE, <<>>, NoDispatch),
                   ret |-> RetFalse]
        ELSE IF s1.swallow
        THEN [s |-> sw.s, log |-> Log(s, flush, FALSE, <<>>, NoDispatch),
              ret |-> sw.ret]
        ELSE IF fr.matched
        THEN IF fr.refs # <<>>
             THEN IF pr.threw
                  THEN [s |-> s2, log |-> dlog,
                        ret |-> RetThrow("error or failed to match on a new element walker: the internal logic is incorrect")]
                  ELSE [s |-> [s2 EXCEPT !.stack = pr.stack], log |-> dlog,
                        ret |-> RetFalse]
             ELSE [s |-> s2, log |-> dlog,
                   ret |-> IF wsMatch THEN RetFalse
                           ELSE RetErrors(<<ValidationError("text not allowed here")>>)]
        ELSE IF fr.errors # <<>>
        THEN [s |-> s2, log |-> dlog, ret |-> RetErrors(fr.errors)]
        ELSE [s |-> dg.s, log |-> dlog, ret |-> dg.ret]

\* canEnd that looks at the top frame whatever the depth of the stack.
GrammarWalkerCanEndAnyDepth(s) ==
    LET top == Top(s.stack)
    IN  Len(top) > 0 /\ CanEnd(top[1])

\* GrammarWalker.canEnd
GrammarWalkerCanEnd(s) ==
    LET top == Top(s.stack)
    IN  Len(s.stack) = 1 /\ Len(top) > 0 /\ CanEnd(top[1])

RECURSIVE EndFrame(_, _)
\* The inner loop of end: the errors of walker.end() over a frame, from
\* walker i on.
EndFrame(frame, i) ==
    IF i > Len(frame) THEN <<>>
    ELSE WalkerEnd(frame[i]) \o EndFrame(frame, i + 1)

RECURSIVE EndFrames(_, _)
\* The outer loop of end: frames ix, ix - 1, ..., 1.
EndFrames(stack, ix) ==
    IF ix < 1 THEN <<>>
    ELSE EndFrame(stack[ix], 1) \o EndFrames(stack, ix - 1)

\* end that ends the walkers of the top frame only.
GrammarWalkerEndTopOnly(s) ==
    IF Len(s.stack) < 1 THEN RetThrow("stack underflow")
    ELSE LET finalResult == EndFrame(Top(s.stack), 1)
         IN  IF finalResult # <<>> THEN RetErrors(finalResult) ELSE RetFalse

\* GrammarWalker.end
GrammarWalkerEnd(s) ==
    IF Len(s.stack) < 1 THEN RetThrow("stack underflow")
    ELSE LET finalResult == EndFrames(s.stack, Len(s.stack))
         IN  IF finalResult # <<>> THEN RetErrors(finalResult) ELSE RetFalse

\* MisplacedElementWalker.clone: a new instance
MisplacedElementWalkerClone(w) == MisplacedElementWalker

\* NotAllowedWalker.clone: the singleton itself
NotAllowedWalkerClone(w) == w

\* RefWalker.clone: a new RefWalker with the same fields
RefWalkerClone(w) == RefWalker(w.def, w.canEnd)

RECURSIVE WalkerClone(_)
\* walker.clone(), by walker variant: a deep copy that clones the walkers
\* inside.
WalkerClone(w) ==
    CASE w.k = "Misplaced" -> MisplacedElementWalkerClone(w)
      [] w.k = "NotAllowed" -> NotAllowedWalkerClone(w)
      [] w.k = "Ref" -> RefWalkerClone(w)
      [] w.k \in {"Choice", "Group"} ->
            [w EXCEPT !.a = WalkerClone(w.a), !.b = WalkerClone(w.b)]
      [] w.k = "Element" -> [w EXCEPT !.walker = WalkerClone(w.walker)]
      [] OTHER -> w

\* GrammarWalker.clone
GrammarWalkerClone(s) ==
    WalkerState([i \in 1..Len(s.stack) |->
                    [j \in 1..Len(s.stack[i]) |-> WalkerClone(s.stack[i][j])]],
                s.misplacedDepth, s.swallow, s.suspendedWs, s.ignoreNextWs)

RECURSIVE HoldsSingleton(_)
\* The walker is, or holds inside, the NotAllowedWalker singleton: the one
\* walker object that a clone shares with the original.
HoldsSingleton(w) ==
    CASE w.k = "NotAllowed" -> TRUE
      [] w.k \in {"Choice", "Group"} -> HoldsSingleton(w.a) \/ HoldsSingleton(w.b)
      [] w.k = "Element" -> HoldsSingleton(w.walker)
      [] OTHER -> FALSE

RECURSIVE WithSingleton(_, _)
\* The walker as it reads once the singleton is in state n.
WithSingleton(w, n) ==
    CASE w.k = "NotAllowed" -> n
      [] w.k \in {"Choice", "Group"} ->
            [w EXCEPT !.a = WithSingleton(w.a, n), !.b = WithSingleton(w.b, n)]
      [] w.k = "Element" -> [w EXCEPT !.walker = WithSingleton(w.walker, n)]
      [] OTHER -> w

\* The stack of a GrammarWalker after an event was fired on the walkers of
\* frame, a frame of another GrammarWalker: what the event did to the
\* singleton shows in every walker that holds it.
StackAfterFireElsewhere(stack, frame, e) ==
    IF \E j \in 1..Len(frame) : HoldsSingleton(frame[j])
    THEN LET n == NotAllowedWalkerFireEvent(NotAllowedWalker, e).w
         IN  [i \in 1..Len(stack) |->
                [j \in 1..Len(stack[i]) |-> WithSingleton(stack[i][j], n)]]
    ELSE stack

(***************************************************************************)
(* The events the driver may fire                                          *)
(***************************************************************************)

\* Element names of documents: the grammar's, and one in another namespace
\* whose local name the grammar defines.
TagNames == {Name("", "a"), Name("", "b"), Name("", "c"), Name("", "n"),
             Name("u", "b")}

AttrNames == {Name("", "x"), Name("", "y")}

AttrValue == <<"x">>

\* The attribute triples of a startTagAndAttributes event: none, or x="x".
AttrLists == {<<>>, <<[ns |-> "", name |-> "x", value |-> AttrValue]>>}

Texts == {<<>>, <<SP>>, <<SP, "x">>}

Events ==
    {Event("enterStartTag", n.ns, n.name, <<>>, <<>>) : n \in TagNames}
    \cup {Event("startTagAndAttributes", n.ns, n.name, as, <<>>) :
            n \in TagNames, as \in AttrLists}
    \cup {Event("attributeName", n.ns, n.name, <<>>, <<>>) : n \in AttrNames}
    \cup {Event("attributeValue", "", "", <<>>, AttrValue)}
    \cup {Event("attributeNameAndValue", n.ns, n.name, <<>>, AttrValue) : n \in AttrNames}
    \cup {Event("leaveStartTag", "", "", <<>>, <<>>)}
    \cup {Event("text", "", "", <<>>, t) : t \in Texts}
    \cup {Event("endTag", n.ns, n.name, <<>>, <<>>) : n \in TagNames}
    \cup {Event("comment", "", "", <<>>, <<>>)}

NoEvent == Event("", "", "", <<>>, <<>>)

\* The GrammarWalker as one value.
Walker == WalkerState(elementWalkerStack, misplacedDepth, swallowAttributeValue,
                      suspendedWs, ignoreNextWs)

(***************************************************************************)
(* The Validator (conversion/parser.ts), which feeds a GrammarWalker from   *)
(* the callbacks of the XML parser                                          *)
(***************************************************************************)

\* The characters the text buffer may hold, and the ontext chunks the driver
\* may hand over between flushes.
MaxText == 2

\* A sax attribute: its qualified name, and the uri, prefix, local name and
\* value the parser resolved for it.
SaxAttribute(name, uri, prefix, local, value) ==
    [name |-> name, uri |-> uri, prefix |-> prefix, local |-> local,
     value |-> value]

\* A sax.QualifiedTag
QualifiedTag(uri, local, attributes) ==
    [uri |-> uri, local |-> local, attributes |-> attributes]

\* One statement of a callback, in the order the callback runs them: a call
\* on the walker (fireEvent, enterContext, definePrefix, leaveContext), an
\* assignment to a field of the Validator, or a throw.
Step(op, e, flag, text) == [op |-> op, e |-> e, flag |-> flag, text |-> text]

\* this.fireEvent(name, args)
FireStep(e) == Step("fireEvent", e, FALSE, <<>>)

\* The calls a callback makes on the walker.
WalkerCalls == {"fireEvent", "enterContext", "definePrefix", "leaveContext"}

\* The Validator after construction: no context, an empty text buffer, no
\* errors. ``thrown`` is the Error its last callback threw, ``calls`` the
\* calls that callback made on the walker, and ``errors`` holds the errors
\* that callback pushed.
NewValidator ==
    [contextStack |-> <<>>, textBuf |-> <<>>, errors |-> <<>>, thrown |-> "",
     calls |-> <<>>]

\* flushTextBuf that fires the buffer even when it is empty.
FlushTextBufAlways(v) ==
    <<FireStep(Event("text", "", "", <<>>, v.textBuf)),
      Step("textBuf", NoEvent, FALSE, <<>>)>>

\* Validator.flushTextBuf: nothing when the buffer is empty; else the
\* buffer is fired as one text event and emptied.
FlushTextBuf(v) ==
    IF v.textBuf = <<>> THEN <<>>
    ELSE <<FireStep(Event("text", "", "", <<>>, v.textBuf)),
           Step("textBuf", NoEvent, FALSE, <<>>)>>

\* Is the attribute xmlns="..." or xmlns:q="..."?
IsNamespaceDeclaration(attr) ==
    (attr.local = "" /\ attr.name = "xmlns") \/ attr.prefix = "xmlns"

RECURSIVE AttributesEnterEach(_, _, _)
\* The loop of onopentag calling enterContext for every declaration.
AttributesEnterEach(attributes, i, hasContext) ==
    IF i > Len(attributes)
    THEN [steps |-> <<>>, attributeEvents |-> <<>>, hasContext |-> hasContext]
    ELSE LET attr == attributes[i]
             declares == IsNamespaceDeclaration(attr)
             rest == AttributesEnterEach(attributes, i + 1, hasContext \/ declares)
         IN  IF declares
             THEN [rest EXCEPT !.steps =
                      <<Step("enterContext", NoEvent, FALSE, <<>>),
                        Step("definePrefix", NoEvent, FALSE,
                             <<attr.local, attr.value>>)>> \o @]
             ELSE [rest EXCEPT !.attributeEvents =
                      <<[ns |-> attr.uri, name |-> attr.local,
                         value |-> attr.value]>> \o @]

RECURSIVE Attributes(_, _, _)
\* The loop of onopentag over the attributes from the i-th on: the calls it
\* makes on the walker, the attribute events it collects and hasContext
\* when it ends.
Attributes(attributes, i, hasContext) ==
    IF i > Len(attributes)
    THEN [steps |-> <<>>, attributeEvents |-> <<>>, hasContext |-> hasContext]
    ELSE LET attr == attributes[i]
             declares == IsNamespaceDeclaration(attr)
             rest == Attributes(attributes, i + 1, hasContext \/ declares)
         IN  IF declares
             THEN [rest EXCEPT !.steps =
                      (IF ~hasContext
                       THEN <<Step("enterContext", NoEvent, FALSE, <<>>)>>
                       ELSE <<>>)
                      \o <<Step("definePrefix", NoEvent, FALSE,
                                <<attr.local, attr.value>>)>> \o @]
             ELSE [rest EXCEPT !.attributeEvents =
                      <<[ns |-> attr.uri, name |-> attr.local,
                         value |-> attr.value]>> \o @]

\* Validator.onopentag
OnOpenTag(v, node) ==
    LET attrs == Attributes(node.attributes, 1, FALSE)
    IN  FlushTextBuf(v)
        \o attrs.steps
        \o <<FireStep(Event("startTagAndAttributes", node.uri, node.local,
                            attrs.attributeEvents, <<>>)),
             Step("unshift", NoEvent, attrs.hasContext, <<>>)>>

\* onclosetag calling leaveContext whatever was shifted.
OnCloseTagLeaveAlways(v, node) ==
    FlushTextBuf(v)
    \o <<Step("shift", NoEvent, FALSE, <<>>)>>
    \o (IF v.contextStack = <<>>
        THEN <<Step("throw", NoEvent, FALSE, <<"stack underflow">>)>>
        ELSE <<FireStep(Event("endTag", node.uri, node.local, <<>>, <<>>)),
               Step("leaveContext", NoEvent, FALSE, <<>>)>>)

\* Validator.onclosetag: hasContext is the head of the context stack as the
\* callback finds it, undefined when the stack is empty.
OnCloseTag(v, node) ==
    FlushTextBuf(v)
    \o <<Step("shift", NoEvent, FALSE, <<>>)>>
    \o (IF v.contextStack = <<>>
        THEN <<Step("throw", NoEvent, FALSE, <<"stack underflow">>)>>
        ELSE <<FireStep(Event("endTag", node.uri, node.local, <<>>, <<>>))>>
             \o (IF Head(v.contextStack)
                 THEN <<Step("leaveContext", NoEvent, FALSE, <<>>)>>
                 ELSE <<>>))

\* Validator.ontext
OnText(v, text) == <<Step("textBuf", NoEvent, FALSE, v.textBuf \o text)>>

\* A Validator and its walker, with the event, the result and the log of
\* the walker's last fireEvent.
Validating(v, w, lastEv, lastRet, lastLog) ==
    [v |-> v, w |-> w, ev |-> lastEv, ret |-> lastRet, log |-> lastLog]

\* Validator.fireEvent: the walker's fireEvent gave r; an Error it threw
\* goes through, the errors it returned are pushed on this.errors.
ValidatorFireEvent(x, st, r) ==
    LET called == [x EXCEPT !.v.calls = Append(@, st), !.w = r.s, !.ev = st.e,
                            !.ret = r.ret, !.log = r.log]
    IN  IF r.ret.t = "throw"
        THEN [called EXCEPT !.v.thrown = r.ret.msg]
        ELSE [called EXCEPT !.v.errors = @ \o r.ret.errors]

RECURSIVE Run(_, _, _)
\* The statements of a callback from the i-th on, run in order until one of
\* them throws.
Run(x, steps, i) ==
    IF i > Len(steps) \/ x.v.thrown # "" THEN x
    ELSE LET st == steps[i]
         IN  CASE st.op = "fireEvent" ->
                    Run(ValidatorFireEvent(x, st, FireEvent(x.w, st.e)),
                        steps, i + 1)
               [] st.op \in {"enterContext", "definePrefix", "leaveContext"} ->
                    Run([x EXCEPT !.v.calls = Append(@, st)], steps, i + 1)
               [] st.op = "textBuf" ->
                    Run([x EXCEPT !.v.textBuf = st.text], steps, i + 1)
               [] st.op = "unshift" ->
                    Run([x EXCEPT !.v.contextStack = <<st.flag>> \o @],
                        steps, i + 1)
               [] st.op = "shift" ->
                    Run([x EXCEPT !.v.contextStack =
                            IF @ = <<>> THEN @ ELSE Tail(@)], steps, i + 1)
               [] st.op = "throw" ->
                    [x EXCEPT !.v.thrown = st.text[1]]

\* A callback of the parser: its name, and the tag or the text it hands
\* over.
Callback(cb, node, text) == [cb |-> cb, node |-> node, text |-> text]

NoTag == QualifiedTag("", "", <<>>)

\* The statements of callback c on Validator v.
Statements(v, c) ==
    CASE c.cb = "onopentag" -> OnOpenTag(v, c.node)
      [] c.cb = "onclosetag" -> OnCloseTag(v, c.node)
      [] c.cb = "ontext" -> OnText(v, c.text)

\* The driver before any callback: the last callback, the name of the event
\* the walker had received last when that callback began, the chunks handed
\* over since the last flush, those pending when the last callback began,
\* the open elements (innermost first, each with whether enterContext was
\* called when it was opened) and the element the last onclosetag closed.
Opened(tag, entered) == [some |-> TRUE, tag |-> tag, entered |-> entered]
NoElement == [some |-> FALSE, tag |-> NoTag, entered |-> FALSE]
NoDriver ==
    [callback |-> Callback("", NoTag, <<>>), before |-> "", chunks |-> <<>>,
     flushed |-> <<>>, open |-> <<>>, closed |-> NoElement]

\* No clone has been made.
NoCloneRun == [made |-> FALSE, cloned |-> Make, sigma |-> <<>>, results |-> <<>>]

\* The second walker before any event.
NoPlainRun == [w |-> Make, ret |-> RetFalse]

\* pattern.newWalker() and the walker's record before any event.
LoneStart(p) ==
    [pat |-> p, w |-> NewWalker(p), fired |-> 0, accepts |-> 0, e |-> NoEvent,
     matched |-> FALSE, refs |-> <<>>]

\* No walker is used on its own.
NoLone == LoneStart(PEmpty)

\* GrammarWalker.make for the walker and the second walker.
InitWalkers ==
    /\ elementWalkerStack = Make.stack
    /\ misplacedDepth = Make.misplacedDepth
    /\ swallowAttributeValue = Make.swallow
    /\ suspendedWs = Make.suspendedWs
    /\ ignoreNextWs = Make.ignoreNextWs
    /\ ev = NoEvent
    /\ validator = NewValidator
    /\ driver = NoDriver
    /\ ret = RetFalse
    /\ log = Log(Make, FALSE, FALSE, <<>>, NoDispatch)
    /\ cloneRun = NoCloneRun
    /\ plainRun = NoPlainRun

(***************************************************************************)
(* The Element tree of the simplifier (conversion/parser.ts)                *)
(***************************************************************************)

\* The nodes of the forest.
NumNodes == 3

Nodes == 1..NumNodes

\* ``undefined`` as a parent.
NoNode == 0

\* The forest: each node's _parent and children, and whether the call in
\* progress has thrown.
Forest(parent, children) == [parent |-> parent, children |-> children, threw |-> FALSE]

\* Element.makeElement for every node: no parent, no children.
NewForest == Forest([n \in Nodes |-> NoNode], [n \in Nodes |-> <<>>])

\* throw new Error(...): the forest stays as the call left it.
Throws(f) == [f EXCEPT !.threw = TRUE]

\* children.indexOf(child) + 1: 0 stands for -1.
IndexOf(seq, x) ==
    IF \E k \in 1..Len(seq) : seq[k] = x
    THEN CHOOSE k \in 1..Len(seq) : seq[k] = x /\ \A j \in 1..(k - 1) : seq[j] # x
    ELSE 0

\* children.splice(k - 1, 1)
SpliceOut(seq, k) == SubSeq(seq, 1, k - 1) \o SubSeq(seq, k + 1, Len(seq))

\* children.splice(index, 0, ...toInsert): an index past the end is the end.
SpliceIn(seq, index, toInsert) ==
    LET at == IF index > Len(seq) THEN Len(seq) ELSE index
    IN  SubSeq(seq, 1, at) \o toInsert \o SubSeq(seq, at + 1, Len(seq))

\* children[k - 1] = x, for k - 1 <= children.length
AssignAt(seq, k, x) == IF k <= Len(seq) THEN [seq EXCEPT ![k] = x] ELSE Append(seq, x)

\* Element.removeChild, with Element.indexOfChild
RemoveChild(f, this, child) ==
    IF f.threw THEN f
    ELSE IF f.parent[child] # this THEN Throws(f)
    ELSE LET ix == IndexOf(f.children[this], child)
         IN  IF ix = 0 THEN Throws(f)
             ELSE [f EXCEPT !.children[this] = SpliceOut(@, ix),
                            !.parent[child] = NoNode]

\* Element.removeChildAt: splice(i, 1)[0] is undefined past the end, and
\* setting its parent throws.
RemoveChildAt(f, this, i) ==
    IF i >= Len(f.children[this]) THEN Throws(f)
    ELSE [f EXCEPT !.children[this] = SpliceOut(@, i + 1),
                   !.parent[f.children[this][i + 1]] = NoNode]

\* if (el.parent !== undefined) { el.parent.removeChild(el); }
Detach(f, el) ==
    IF f.threw \/ f.parent[el] = NoNode THEN f ELSE RemoveChild(f, f.parent[el], el)

\* Element.replaceChildAt, for an index i of this.children
ReplaceChildAt(f, this, i, replacement) ==
    LET child == f.children[this][i + 1]
        f1 == Detach(f, replacement)
    IN  IF f1.threw THEN f1
        ELSE [f1 EXCEPT !.children[this] = AssignAt(@, i + 1, replacement),
                        !.parent = [[@ EXCEPT ![child] = NoNode]
                                       EXCEPT ![replacement] = this]]

\* Element.replaceChildWith
ReplaceChildWith(f, this, child, replacement) ==
    IF f.parent[child] # this \/ IndexOf(f.children[this], child) = 0 THEN Throws(f)
    ELSE ReplaceChildAt(f, this, IndexOf(f.children[this], child) - 1, replacement)

\* Node.replaceWith
ReplaceWith(f, this, replacement) ==
    IF f.parent[this] = NoNode THEN Throws(f)
    ELSE ReplaceChildWith(f, f.parent[this], this, replacement)

RECURSIVE Adopt(_, _, _, _)
\* The loop of appendChildren and insertAt over the nodes, from index k:
\* each is removed from its parent and given this as parent.
Adopt(f, this, els, k) ==
    IF f.threw \/ k > Len(els) THEN f
    ELSE LET f1 == Detach(f, els[k])
         IN  IF f1.threw THEN f1
             ELSE Adopt([f1 EXCEPT !.parent[els[k]] = this], this, els, k + 1)

\* Element.appendChild
AppendChild(f, this, child) ==
    LET f1 == Adopt(f, this, <<child>>, 1)
    IN  IF f1.threw THEN f1 ELSE [f1 EXCEPT !.children[this] = Append(@, child)]

\* Element.appendChildren
AppendChildren(f, this, children) ==
    LET f1 == Adopt(f, this, children, 1)
    IN  IF f1.threw THEN f1 ELSE [f1 EXCEPT !.children[this] = @ \o children]

\* Element.prependChild
PrependChild(f, this, child) ==
    LET f1 == Adopt(f, this, <<child>>, 1)
    IN  IF f1.threw THEN f1 ELSE [f1 EXCEPT !.children[this] = <<child>> \o @]

\* Element.insertAt
InsertAt(f, this, index, toInsert) ==
    LET f1 == Adopt(f, this, toInsert, 1)
    IN  IF f1.threw THEN f1
        ELSE [f1 EXCEPT !.children[this] = SpliceIn(@, index, toInsert)]

\* Element.empty
EmptyChildren(f, this) ==
    [f EXCEPT !.children[this] = <<>>,
              !.parent = [n \in DOMAIN f.parent |->
                            IF IndexOf(f.children[this], n) # 0 THEN NoNode ELSE @[n]]]

\* Element.grabChildren
GrabChildren(f, this, src) ==
    LET children == f.children[src]
        f1 == [f EXCEPT !.children[src] = <<>>]
    IN  [f1 EXCEPT !.children[this] = @ \o children,
                   !.parent = [n \in DOMAIN f.parent |->
                                 IF IndexOf(children, n) # 0 THEN this ELSE @[n]]]

\* The number of entries of seq that are x.
Occurrences(seq, x) == Cardinality({k \in 1..Len(seq) : seq[k] = x})

\* Every node with a parent occurs once among the parent's children, and
\* every entry of a children array has the array's owner as parent.
Consistent(f) ==
    /\ \A n \in DOMAIN f.parent :
          f.parent[n] # NoNode => Occurrences(f.children[f.parent[n]], n) = 1
    /\ \A p \in DOMAIN f.parent : \A k \in 1..Len(f.children[p]) :
          f.parent[f.children[p][k]] = p

\* A call of a mutator: its name, its receiver, and its node, index and
\* node array arguments.
TreeCall(name, this, node, index, nodes) ==
    [name |-> name, this |-> this, node |-> node, index |-> index, nodes |-> nodes]

\* The call on the forest.
Mutate(f, c) ==
    CASE c.name = "appendChild" -> AppendChild(f, c.this, c.node)
      [] c.name = "appendChildren" -> AppendChildren(f, c.this, c.nodes)
      [] c.name = "prependChild" -> PrependChild(f, c.this, c.node)
      [] c.name = "insertAt" -> InsertAt(f, c.this, c.index, c.nodes)
      [] c.name = "removeChild" -> RemoveChild(f, c.this, c.node)
      [] c.name = "removeChildAt" -> RemoveChildAt(f, c.this, c.index)
      [] c.name = "replaceChildWith" -> ReplaceChildWith(f, c.this, c.node, c.nodes[1])
      [] c.name = "replaceChildAt" -> ReplaceChildAt(f, c.this, c.index, c.node)
      [] c.name = "replaceWith" -> ReplaceWith(f, c.this, c.node)
      [] c.name = "grabChildren" -> GrabChildren(f, c.this, c.node)
      [] c.name = "empty" -> EmptyChildren(f, c.this)

\* The forest and the last call on it.
TreeState(f, c) == [f |-> f, call |-> c]

\* The nodes just made, no mutator called.
NoTree == TreeState(NewForest, TreeCall("", NoNode, NoNode, 0, <<>>))

(***************************************************************************)
(* Simplification step 10 (conversion/simplifier/step10.ts)                *)
(***************************************************************************)

\* No name attribute, and the text of an Element without text.
NoAttr == <<>>

\* A tree of Elements: the forest's parent and children, with each
\* Element's local name and its name (NoAttr for none): the name attribute
\* of a define or a ref, the text of a name, as the sequence of its parts.
Tree(parent, children, local, name) ==
    [parent |-> parent, children |-> children, threw |-> FALSE,
     local |-> local, name |-> name]

\* The Element made last.
Newest(h) == Len(h.parent)

\* Element.makeElement(name, children): a new Element with the children,
\* each taken from the parent it had.
MakeElement(h, name, children) ==
    LET h1 == [h EXCEPT !.parent = Append(@, NoNode),
                        !.children = Append(@, <<>>),
                        !.local = Append(@, name),
                        !.name = Append(@, NoAttr)]
    IN  AppendChildren(h1, Newest(h1), children)

\* const w = Element.makeElement(name, []); w.grabChildren(el);
\* el.appendChild(w);
WrapChildren(h, el, name) ==
    LET h1 == MakeElement(h, name, <<>>)
    IN  AppendChild(GrabChildren(h1, Newest(h1), el), el, Newest(h1))

\* el.appendChild(Element.makeElement(name, []))
AppendNew(h, el, name) ==
    LET h1 == MakeElement(h, name, <<>>)
    IN  AppendChild(h1, el, Newest(h1))

\* The loop never entered: the children stay as they are.
FoldNot(h, el, local) == h

RECURSIVE Fold(_, _, _)
\* while (children.length > 2) el.prependChild(
\*   Element.makeElement(local, [children[0], children[1]]))
Fold(h, el, local) ==
    IF Len(h.children[el]) > 2
    THEN LET h1 == MakeElement(h, local, SubSeq(h.children[el], 1, 2))
         IN  Fold(PrependChild(h1, el, Newest(h1)), el, local)
    ELSE h

\* The zeroOrMore case of walk.
ZeroOrMore(h, el) ==
    LET h1 == MakeElement([h EXCEPT !.local[el] = "choice"], "oneOrMore", <<>>)
        oneOrMore == Newest(h1)
        h2 == IF Len(h1.children[el]) > 1
              THEN LET h3 == MakeElement(h1, "group", <<>>)
                   IN  AppendChild(GrabChildren(h3, Newest(h3), el),
                                   oneOrMore, Newest(h3))
              ELSE GrabChildren(h1, oneOrMore, el)
        h4 == MakeElement(h2, "empty", <<>>)
    IN  AppendChildren(h4, el, <<oneOrMore, Newest(h4)>>)

\* The optional and mixed cases of walk: the element becomes a local with
\* a last child added.
Becomes(h, el, local, last) ==
    LET h1 == [h EXCEPT !.local[el] = local]
    IN  AppendNew(IF Len(h1.children[el]) > 1 THEN WrapChildren(h1, el, "group")
                  ELSE h1,
                  el, last)

\* The switch of walk, for the cases that do not return.
Rewrite(h, el) ==
    LET local == h.local[el]
        n == Len(h.children[el])
    IN  CASE local \in {"choice", "group", "interleave"} -> Fold(h, el, local)
          [] local = "element" ->
                IF n > 2
                THEN LET h1 == MakeElement(h, "group", SubSeq(h.children[el], 2, n))
                     IN  AppendChild(h1, el, Newest(h1))
                ELSE h
          [] local = "attribute" -> IF n = 1 THEN AppendNew(h, el, "text") ELSE h
          [] local \in {"define", "oneOrMore", "list"} ->
                IF n > 1 THEN WrapChildren(h, el, "group") ELSE h
          [] local = "zeroOrMore" -> ZeroOrMore(h, el)
          [] local = "optional" -> Becomes(h, el, "choice", "empty")
          [] local = "mixed" -> Becomes(h, el, "interleave", "text")
          [] local = "except" ->
                IF n > 1 THEN WrapChildren(h, el, "choice") ELSE h
          [] OTHER -> h

\* What walk returns: the tree, and the replacement of el (NoNode for
\* null).
Walked(h, replaced) == [h |-> h, replaced |-> replaced]

RECURSIVE Walk(_, _)
RECURSIVE WalkAgain(_, _)
RECURSIVE WalkChildren(_, _, _)
\* walk(false, el)
Walk(h, el) ==
    IF h.local[el] \in {"choice", "group", "interleave"} /\ Len(h.children[el]) = 1
    THEN LET replaceWith == h.children[el][1]
         IN  Walked(IF h.parent[el] # NoNode
                    THEN ReplaceChildWith(h, h.parent[el], el, replaceWith)
                    ELSE RemoveChildAt(h, el, 0),
                    replaceWith)
    ELSE Walked(WalkChildren(Rewrite(h, el), el, 1), NoNode)

\* let replaced = walk(check, child);
\* while (replaced !== null) { replaced = walk(check, replaced); }
WalkAgain(h, el) ==
    LET w == Walk(h, el)
    IN  IF w.replaced = NoNode THEN w.h ELSE WalkAgain(w.h, w.replaced)

\* The loop of walk over el.children, from index ix - 1.
WalkChildren(h, el, ix) ==
    IF ix > Len(h.children[el]) THEN h
    ELSE WalkChildren(WalkAgain(h, h.children[el][ix]), el, ix + 1)

\* A tree with its root.
Rooted(h, root) == [h |-> h, root |-> root]

RECURSIVE Step10(_, _)
\* step10(el, false)
Step10(h, el) ==
    LET w == Walk(h, el)
    IN  IF w.replaced = NoNode THEN Rooted(w.h, el) ELSE Step10(w.h, w.replaced)

RECURSIVE Descendants(_, _)
\* el and the Elements below it.
Descendants(h, el) ==
    {el} \cup UNION {Descendants(h, h.children[el][k]) : k \in 1..Len(h.children[el])}

(***************************************************************************)
(* Simplification step 16 (conversion/simplifier/step16.ts)                *)
(***************************************************************************)

\* The frames substituteRefs may nest before the engine throws RangeError
\* (Maximum call stack size exceeded).
MaxStack == 12

\* Elements that cannot contain references.
Skip == {"name", "anyName", "nsName", "param", "empty", "text", "value",
         "notAllowed", "ref"}

RECURSIVE DescendantsFrom(_, _, _, _)
\* The Elements named local below el, from its child k on, in document
\* order.
DescendantsFrom(h, el, local, k) ==
    IF k > Len(h.children[el]) THEN <<>>
    ELSE LET child == h.children[el][k]
         IN  (IF h.local[child] = local THEN <<child>> ELSE <<>>)
             \o DescendantsFrom(h, child, local, 1)
             \o DescendantsFrom(h, el, local, k + 1)

\* findDescendantsByLocalName(el, local)
FindDescendantsByLocalName(h, el, local) == DescendantsFrom(h, el, local, 1)

\* `__${elName}-elt-${elementCount}`
EltName(elName, elementCount) == <<"__">> \o elName \o <<"-elt-", elementCount>>

\* const e = Element.makeElement(local); e.setAttribute("name", name);
MakeNamed(h, local, name) ==
    LET h1 == MakeElement(h, local, <<>>)
    IN  [h1 EXCEPT !.name[Newest(h1)] = name]

\* Element.append(child)
ElementAppend(h, this, child) == AppendChild(h, this, child)

\* Element.append(children)
ElementAppendAll(h, this, children) == AppendChildren(h, this, children)

\* The State of step16 with the tree it works on: thrown is the name of
\* the error thrown ("" for none), toAppend the array of wrapElements.
State(h, removedDefines, seenRefs) ==
    [h |-> h, removedDefines |-> removedDefines, seenRefs |-> seenRefs,
     thrown |-> "", toAppend |-> <<>>]

\* throw new <error>(...)
Throw(st, error) == [st EXCEPT !.thrown = error]

\* The body of the loop of wrapElements, for an element not in a define.
WrapElement(st, el, elementCount) ==
    LET first == st.h.children[el][1]
        elName == IF st.h.local[first] = "name" THEN st.h.name[first] ELSE NoAttr
        name == EltName(elName, elementCount)
        h1 == MakeNamed(st.h, "ref", name)
        ref == Newest(h1)
        h2 == MakeNamed(ReplaceWith(h1, el, ref), "define", name)
        defEl == Newest(h2)
    IN  [st EXCEPT !.h = ElementAppend(h2, defEl, el),
                   !.seenRefs = @ \cup {name},
                   !.toAppend = Append(@, defEl)]

RECURSIVE WrapFrom(_, _, _, _)
\* The loop of wrapElements over the elements found, from the k-th.
WrapFrom(st, grammarEl, els, k) ==
    IF k > Len(els)
    THEN [st EXCEPT !.h = ElementAppendAll(@, grammarEl, st.toAppend)]
    ELSE WrapFrom(IF st.h.local[st.h.parent[els[k]]] # "define"
                  THEN WrapElement(st, els[k], k) ELSE st,
                  grammarEl, els, k + 1)

\* wrapElements(state, root)
WrapElements(st, root) ==
    WrapFrom(st, root, FindDescendantsByLocalName(st.h, root, "element"), 1)

\* checkDefinitionCycles(name, el)
CheckDefinitionCycles(st, name, el) ==
    LET refs == FindDescendantsByLocalName(st.h, el, "ref")
    IN  IF \E k \in 1..Len(refs) : st.h.name[refs[k]] = name
        THEN Throw(st, "SchemaValidationError")
        ELSE st

\* An entry that is never marked used.
RemovedDefineStateUnused(topElement, used) ==
    [topElement |-> topElement, used |-> FALSE]

\* An entry of removedDefines.
RemovedDefineState(topElement, used) == [topElement |-> topElement, used |-> used]

RECURSIVE FilterDefines(_, _, _, _, _)
\* removeDefsWithoutElement: the filter over the children, from the k-th,
\* then el.empty() and el.append(keep).
FilterDefines(st, el, children, k, keep) ==
    IF st.thrown # "" THEN st
    ELSE IF k > Len(children)
    THEN [st EXCEPT !.h = ElementAppendAll(EmptyChildren(@, el), el, keep)]
    ELSE LET child == children[k]
         IN  IF \/ st.h.local[child] # "define"
                \/ st.h.local[st.h.children[child][1]] = "element"
             THEN FilterDefines(st, el, children, k + 1, Append(keep, child))
             ELSE LET defChild == st.h.children[child][1]
                      name == st.h.name[child]
                      st1 == [st EXCEPT
                                 !.h = EmptyChildren(@, child),
                                 !.removedDefines =
                                     (name :> RemovedDefineState(defChild, FALSE)) @@ @]
                  IN  FilterDefines(CheckDefinitionCycles(st1, name, defChild),
                                    el, children, k + 1, keep)

\* removeDefsWithoutElement(state, el)
RemoveDefsWithoutElement(st, el) ==
    FilterDefines(st, el, st.h.children[el], 1, <<>>)

RECURSIVE ElementClone(_, _)
RECURSIVE CloneChildren(_, _, _, _)
\* Element.clone: the tree with the copy of el made last; the constructor
\* makes the copies of the children its children.
ElementClone(h, el) ==
    LET copies == CloneChildren(h, h.children[el], 1, <<>>)
        h1 == [copies.h EXCEPT !.parent = Append(@, NoNode),
                               !.children = Append(@, copies.nodes),
                               !.local = Append(@, h.local[el]),
                               !.name = Append(@, h.name[el])]
    IN  [h1 EXCEPT !.parent = [n \in DOMAIN @ |->
                                 IF IndexOf(copies.nodes, n) # 0 THEN Newest(h1)
                                 ELSE @[n]]]

\* this.children.map((child) => child.clone()), from the k-th child.
CloneChildren(h, children, k, nodes) ==
    IF k > Len(children) THEN [h |-> h, nodes |-> nodes]
    ELSE LET h1 == ElementClone(h, children[k])
         IN  CloneChildren(h1, children, k + 1, Append(nodes, Newest(h1)))

\* What substituteRefs returns, with the state it leaves.
Substituted(st, returned) == [st |-> st, ret |-> returned]

RECURSIVE SubstituteRefs(_, _, _)
RECURSIVE SubstituteChildren(_, _, _, _)
\* substituteRefs(state, el), depth frames of it on the stack.
SubstituteRefs(st, el, depth) ==
    IF st.thrown # "" THEN Substituted(st, el)
    ELSE IF depth > MaxStack THEN Substituted(Throw(st, "RangeError"), el)
    ELSE IF st.h.local[el] = "ref"
    THEN LET name == st.h.name[el]
         IN  IF name \notin DOMAIN st.removedDefines
             THEN Substituted([st EXCEPT !.seenRefs = @ \cup {name}], el)
             ELSE IF st.removedDefines[name].used
             THEN LET h1 == ElementClone(st.h, st.removedDefines[name].topElement)
                  IN  Substituted([st EXCEPT !.h = h1], Newest(h1))
             ELSE LET r == SubstituteRefs(st, st.removedDefines[name].topElement,
                                          depth + 1)
                  IN  Substituted(
                          IF r.st.thrown # "" THEN r.st
                          ELSE [r.st EXCEPT !.removedDefines[name] =
                                               RemovedDefineState(r.ret, TRUE)],
                          r.ret)
    ELSE IF st.h.local[el] \in Skip THEN Substituted(st, el)
    ELSE Substituted(SubstituteChildren(st, el, 1, depth), el)

\* The loop of substituteRefs over el.children, from index ix - 1.
SubstituteChildren(st, el, ix, depth) ==
    IF st.thrown # "" \/ ix > Len(st.h.children[el]) THEN st
    ELSE LET child == st.h.children[el][ix]
             r == SubstituteRefs(st, child, depth + 1)
         IN  SubstituteChildren(
                 IF r.st.thrown = "" /\ r.ret # child
                 THEN [r.st EXCEPT !.h = ReplaceChildAt(@, el, ix - 1, r.ret)]
                 ELSE r.st,
                 el, ix + 1, depth)

RECURSIVE RemoveEach(_, _, _, _, _)
\* The defines among children, from the k-th, whose name is not in
\* seenRefs, removed from el.
RemoveEach(h, el, children, k, seenRefs) ==
    IF k > Len(children) THEN h
    ELSE RemoveEach(IF h.local[children[k]] = "define"
                       /\ h.name[children[k]] \notin seenRefs
                    THEN RemoveChild(h, el, children[k]) ELSE h,
                    el, children, k + 1, seenRefs)

\* removeUnreferencedDefs(tree, seenRefs)
RemoveUnreferencedDefs(h, el, seenRefs) ==
    RemoveEach(h, el, h.children[el], 1, seenRefs)

\* What step16 returns or throws.
Returned(h, root, thrown) == [h |-> h, root |-> root, thrown |-> thrown]

\* step16(currentTree)
Step16(h, currentTree) ==
    IF h.local[currentTree] # "grammar" THEN Returned(h, currentTree, "Error")
    ELSE LET wrapped == WrapElements(State(h, <<>>, {}), currentTree)
             removed == RemoveDefsWithoutElement(wrapped, currentTree)
             r == SubstituteRefs(removed, currentTree, 1)
         IN  IF r.st.thrown # "" THEN Returned(r.st.h, currentTree, r.st.thrown)
             ELSE Returned(RemoveUnreferencedDefs(r.st.h, r.ret, r.st.seenRefs),
                           r.ret, "")

\* A schema tree handed to a step, and what the step returned once it ran
\* (stage names the step).
Simplifying(stage, input, out) == [stage |-> stage, input |-> input, out |-> out]

\* No tree.
NoRooted == Rooted(Tree(<<>>, <<>>, <<>>, <<>>), NoNode)

\* No schema tree handed to any step.
NoSimp == Simplifying("", NoRooted, NoRooted)

\* Two name patterns, no method of theirs called: r is for
\* p.intersection(q), i for p.intersects(q), s for p.subtract(q) and w for
\* the names of which p.wildcardMatch is true.
NamesStart(p, q) ==
    [p |-> p, q |-> q, applied |-> FALSE, r |-> Zero, called |-> {},
     i |-> "false", s |-> Zero, w |-> {}]

\* No name patterns are intersected.
NoNames == NamesStart(Name("", "a"), Name("", "a"))

Init == InitWalkers /\ lone = NoLone /\ names = NoNames /\ tree = NoTree /\ simp = NoSimp

\* walker.fireEvent(name, params) on the walker.
FireWalker(e) ==
    /\ IsStartTag(e.name) => Len(elementWalkerStack) < MaxDepth
    /\ \E r \in {FireEvent(Walker, e)} :
           /\ elementWalkerStack' = r.s.stack
           /\ misplacedDepth' = r.s.misplacedDepth
           /\ swallowAttributeValue' = r.s.swallow
           /\ suspendedWs' = r.s.suspendedWs
           /\ ignoreNextWs' = r.s.ignoreNextWs
           /\ ev' = e
           /\ ret' = r.ret
           /\ log' = r.log

\* One call of walker.fireEvent(name, params) by the driver.
Fire(e) == FireWalker(e) /\ UNCHANGED <<cloneRun, plainRun, lone, names, tree, simp,
                   validator, driver>>

Next == \E e \in Events : Fire(e)

Spec == Init /\ [][Next]_vars

(***************************************************************************)
(* The Validator driven by the parser                                      *)
(***************************************************************************)

\* The attributes of the tags the parser reports: a plain attribute, the
\* default namespace declaration (as sax reports it, and with an empty
\* prefix) and a prefixed declaration.
PlainAttribute == SaxAttribute("x", "", "", "x", AttrValue)
DefaultDeclaration == SaxAttribute("xmlns", "xmlns-uri", "xmlns", "", "u")
BareDeclaration == SaxAttribute("xmlns", "", "", "", "u")
PrefixedDeclaration == SaxAttribute("xmlns:q", "xmlns-uri", "xmlns", "q", "u")

AttributeLists ==
    {<<>>, <<BareDeclaration>>, <<PrefixedDeclaration, DefaultDeclaration>>,
     <<PlainAttribute, PrefixedDeclaration>>}

\* The tags of the documents parsed: one the grammar starts with and one it
\* defines elsewhere.
ParsedTags == {Name("", "a"), Name("", "n")}

\* The chunks of text the parser hands over: empty, whitespace, a letter.
Chunks == {<<>>, <<SP>>, <<"x">>}

Callbacks ==
    {Callback("onopentag", QualifiedTag(n.ns, n.name, as), <<>>) :
        n \in ParsedTags, as \in AttributeLists}
    \cup {Callback("onclosetag", QualifiedTag(n.ns, n.name, <<>>), <<>>) :
            n \in ParsedTags}
    \cup {Callback("ontext", NoTag, t) : t \in Chunks}

\* The parser calls one callback of the Validator. A close tag closes the
\* innermost open element when there is one; an Error thrown by a callback
\* goes through the parser, which calls nothing after it.
Drive(c) ==
    /\ validator.thrown = ""
    /\ c.cb = "onopentag" => Len(elementWalkerStack) < MaxDepth
    /\ c.cb = "ontext" =>
          /\ Len(driver.chunks) < MaxText
          /\ Len(validator.textBuf) + Len(c.text) <= MaxText
    /\ (c.cb = "onclosetag" /\ driver.open # <<>>) =>
          /\ c.node.uri = Head(driver.open).tag.uri
          /\ c.node.local = Head(driver.open).tag.local
    /\ \E x \in {Run(Validating([validator EXCEPT !.calls = <<>>,
                                                   !.errors = <<>>],
                                Walker, ev, ret, log),
                     Statements(validator, c), 1)} :
          /\ validator' = x.v
          /\ elementWalkerStack' = x.w.stack
          /\ misplacedDepth' = x.w.misplacedDepth
          /\ swallowAttributeValue' = x.w.swallow
          /\ suspendedWs' = x.w.suspendedWs
          /\ ignoreNextWs' = x.w.ignoreNextWs
          /\ ev' = x.ev
          /\ ret' = x.ret
          /\ log' = x.log
          /\ driver' =
                [callback |-> c,
                 before |-> ev.name,
                 chunks |-> IF c.cb = "ontext"
                            THEN Append(driver.chunks, c.text) ELSE <<>>,
                 flushed |-> IF c.cb = "ontext" THEN <<>> ELSE driver.chunks,
                 open |-> CASE c.cb = "onopentag" ->
                                  <<Opened(c.node,
                                           \E i \in 1..Len(x.v.calls) :
                                              x.v.calls[i].op = "enterContext")>>
                                  \o driver.open
                            [] c.cb = "onclosetag" /\ driver.open # <<>> ->
                                  Tail(driver.open)
                            [] OTHER -> driver.open,
                 closed |-> IF c.cb = "onclosetag" /\ driver.open # <<>>
                            THEN Head(driver.open) ELSE NoElement]
    /\ UNCHANGED <<cloneRun, plainRun, lone, names, tree, simp>>

NextValidator == \E c \in Callbacks : Drive(c)

SpecValidator == Init /\ [][NextValidator]_vars

(***************************************************************************)
(* A clone of the walker, run on its own                                   *)
(***************************************************************************)

\* The number of events fired on the clone.
MaxSigma == 2

\* The events fired on the walker and on its clone in this scenario.
CloneEvents ==
    {Event("enterStartTag", "", n, <<>>, <<>>) : n \in {"a", "c"}}
    \cup {Event("leaveStartTag", "", "", <<>>, <<>>),
          Event("attributeName", "", "x", <<>>, <<>>),
          Event("text", "", "", <<>>, <<SP>>),
          Event("endTag", "", "c", <<>>, <<>>)}

\* clone = walker.clone()
Clone ==
    /\ ~cloneRun.made
    /\ cloneRun' = [made |-> TRUE, cloned |-> GrammarWalkerClone(Walker),
                    sigma |-> <<>>, results |-> <<>>]
    /\ UNCHANGED <<validator, driver, elementWalkerStack, misplacedDepth,
                   swallowAttributeValue,
                   suspendedWs, ignoreNextWs, ev, ret, log, plainRun, lone,
                   names, tree, simp>>

\* target.fireEvent(name, params), the target being the walker until it is
\* cloned and the clone afterwards. The clone moves on alone; the walker
\* sees what the event did to the walker objects it shares with the clone.
FireTarget(onClone, e) ==
    /\ onClone = cloneRun.made
    /\ onClone => Len(cloneRun.sigma) < MaxSigma
    /\ \E t \in {IF onClone THEN cloneRun.cloned ELSE Walker} :
          /\ IsStartTag(e.name) => Len(t.stack) < MaxDepth
          /\ \E r \in {FireEvent(t, e)} :
                IF onClone
                THEN /\ cloneRun' = [made |-> TRUE, cloned |-> r.s,
                                     sigma |-> Append(cloneRun.sigma, e),
                                     results |-> Append(cloneRun.results, r.ret)]
                     /\ elementWalkerStack' =
                           IF r.log.dispatched
                           THEN StackAfterFireElsewhere(elementWalkerStack,
                                                        r.log.frame, e)
                           ELSE elementWalkerStack
                     /\ UNCHANGED <<misplacedDepth, swallowAttributeValue,
                                    suspendedWs, ignoreNextWs, ev, ret, log>>
                ELSE /\ elementWalkerStack' = r.s.stack
                     /\ misplacedDepth' = r.s.misplacedDepth
                     /\ swallowAttributeValue' = r.s.swallow
                     /\ suspendedWs' = r.s.suspendedWs
                     /\ ignoreNextWs' = r.s.ignoreNextWs
                     /\ ev' = e
                     /\ ret' = r.ret
                     /\ log' = r.log
                     /\ UNCHANGED cloneRun
    /\ UNCHANGED <<plainRun, lone, names, tree, simp,
                   validator, driver>>

NextClone ==
    \/ Clone
    \/ \E onClone \in BOOLEAN, e \in CloneEvents : FireTarget(onClone, e)

SpecClone == Init /\ [][NextClone]_vars

RECURSIVE Replay(_, _, _)
\* The results of firing the events i.. of sigma on a walker in state s.
Replay(s, sigma, i) ==
    IF i > Len(sigma) THEN <<>>
    ELSE LET r == FireEvent(s, sigma[i])
         IN  <<r.ret>> \o Replay(r.s, sigma, i + 1)

(***************************************************************************)
(* A document with and without whitespace between its elements             *)
(***************************************************************************)

\* The tag events of the documents of this scenario.
WsEvents ==
    {Event("enterStartTag", "", n, <<>>, <<>>) : n \in {"a", "c", "n"}}
    \cup {Event("leaveStartTag", "", "", <<>>, <<>>)}
    \cup {Event("endTag", "", n, <<>>, <<>>) : n \in {"a", "c", "n"}}

\* An element boundary: the last event closed a start tag or was an end tag.
AtElementBoundary == ev.name \in {"leaveStartTag", "startTagAndAttributes", "endTag"}

\* Whitespace between two elements.
WsText == Event("text", "", "", <<>>, <<SP>>)

\* One fireEvent(name, params) of the document with whitespace. Whitespace
\* inserted at an element boundary goes to the first walker only; a tag
\* event is also an event of the document without whitespace and goes to
\* both walkers. After inserted whitespace comes a start tag or an end tag.
FireDocs(inserted, e) ==
    /\ IF inserted
       THEN AtElementBoundary /\ e = WsText
       ELSE /\ e \in WsEvents
            /\ ev.name = "text" => (IsStartTag(e.name) \/ e.name = "endTag")
            /\ IsStartTag(e.name) => Len(plainRun.w.stack) < MaxDepth
    /\ IsStartTag(e.name) => Len(elementWalkerStack) < MaxDepth
    /\ \E fed \in {IF inserted THEN {TRUE} ELSE BOOLEAN} :
       \E rs \in {[first \in fed |->
                      FireEvent(IF first THEN Walker ELSE plainRun.w, e)]} :
          /\ elementWalkerStack' = rs[TRUE].s.stack
          /\ misplacedDepth' = rs[TRUE].s.misplacedDepth
          /\ swallowAttributeValue' = rs[TRUE].s.swallow
          /\ suspendedWs' = rs[TRUE].s.suspendedWs
          /\ ignoreNextWs' = rs[TRUE].s.ignoreNextWs
          /\ ev' = e
          /\ ret' = rs[TRUE].ret
          /\ log' = rs[TRUE].log
          /\ plainRun' = IF inserted THEN plainRun
                         ELSE [w |-> rs[FALSE].s, ret |-> rs[FALSE].ret]
    /\ UNCHANGED <<cloneRun, lone, names, tree, simp,
                   validator, driver>>

NextWs == \E inserted \in BOOLEAN, e \in WsEvents \cup {WsText} : FireDocs(inserted, e)

SpecWs == Init /\ [][NextWs]_vars

(***************************************************************************)
(* A pattern's walker used on its own                                      *)
(***************************************************************************)

\* The number of events fired on the walker.
MaxFired == 3

RECURSIVE HasEmptyPattern(_)
\* Pattern.hasEmptyPattern of each pattern variant
HasEmptyPattern(p) ==
    CASE p.k = "Ref" -> RefHasEmptyPattern(p.name)
      [] p.k = "NotAllowed" -> FALSE
      [] p.k \in {"Empty", "Text"} -> TRUE
      [] p.k = "Attribute" -> FALSE
      [] p.k = "Choice" -> HasEmptyPattern(p.a) \/ HasEmptyPattern(p.b)
      [] p.k = "Group" -> HasEmptyPattern(p.a) /\ HasEmptyPattern(p.b)

\* The patterns of the grammar: a ref to each definition, the content of
\* each element, the start pattern.
LonePatterns ==
    [i \in 1..Len(DefinitionOrder) |-> PRef(DefinitionOrder[i])]
    \o [i \in 1..Len(DefinitionOrder) |-> GrammarDefinitions[DefinitionOrder[i]].pat]
    \o <<GrammarStart, PEmpty>>

InitLone ==
    /\ InitWalkers
    /\ \E i \in 1..Len(LonePatterns) : lone = LoneStart(LonePatterns[i])
    /\ names = NoNames
    /\ tree = NoTree
    /\ simp = NoSimp

\* walker.fireEvent(name, params) on the walker of the pattern.
LoneFire(e) ==
    /\ lone.fired < MaxFired
    /\ \E r \in {WalkerFire(lone.w, e)} :
          lone' = [pat |-> lone.pat, w |-> r.w, fired |-> lone.fired + 1,
                   accepts |-> lone.accepts + (IF r.matched THEN 1 ELSE 0),
                   e |-> e, matched |-> r.matched, refs |-> r.refs]
    /\ UNCHANGED <<validator, driver, elementWalkerStack, misplacedDepth,
                   swallowAttributeValue,
                   suspendedWs, ignoreNextWs, ev, ret, log, cloneRun, plainRun,
                   names, tree, simp>>

NextLone == \E e \in Events : LoneFire(e)

SpecLone == InitLone /\ [][NextLone]_vars

(***************************************************************************)
(* The intersection of two name patterns                                   *)
(***************************************************************************)

\* The namespaces and local names of the patterns.
PatternNs == {"", "u"}
PatternLocals == {"a", "b"}

\* The names the patterns are matched against: those of the patterns and
\* some of no pattern.
TestNs == PatternNs \cup {"v"}
TestLocals == PatternLocals \cup {"c"}

Names == {Name(ns, l) : ns \in PatternNs, l \in PatternLocals}

\* The excepts of an NsName: names and choices of names.
SimpleExcepts ==
    Names
    \cup {NameChoice(Name(ns, "a"), Name(ns, "b")) : ns \in PatternNs}
    \cup {NameChoice(Name("", "a"), Name("u", "a"))}

NsNames == {NsName(ns, x) : ns \in PatternNs, x \in {NoExcept} \cup SimpleExcepts}

\* The excepts of an AnyName: names, NsNames and choices of them.
AnyExcepts ==
    Names \cup NsNames
    \cup {NameChoice(Name(ns, "a"), Name(ns, "b")) : ns \in PatternNs}
    \cup {NameChoice(Name("", "a"), NsName("u", NoExcept)),
          NameChoice(NsName("", Name("", "a")), NsName("u", NoExcept))}

AnyNames == {AnyName(x) : x \in {NoExcept} \cup AnyExcepts}

\* The sides of a top-level choice.
ChoiceSides ==
    {Name("", "a"), Name("u", "b"), NsName("", NoExcept),
     NsName("u", Name("u", "a")), AnyName(Name("", "a"))}

\* The name patterns intersected.
NamePatterns ==
    Names \cup NsNames \cup AnyNames
    \cup {NameChoice(x, y) : x, y \in ChoiceSides}
    \cup {NameChoice(Name(ns, "a"), Name(ns, "b")) : ns \in PatternNs}

RECURSIVE SubtractOperand(_)
\* x is Name | NsName | NameChoice, the choice a tree of Names and NsNames.
SubtractOperand(x) ==
    CASE x.kind \in {"Name", "NsName"} -> TRUE
      [] x.kind = "NameChoice" -> SubtractOperand(x.a) /\ SubtractOperand(x.b)
      [] OTHER -> FALSE

InitNames ==
    /\ InitWalkers
    /\ lone = NoLone
    /\ tree = NoTree
    /\ simp = NoSimp
    /\ names \in {NamesStart(p, q) : p, q \in NamePatterns}

\* r = p.intersection(q)
Intersect ==
    /\ ~names.applied
    /\ names' = [names EXCEPT !.applied = TRUE,
                              !.r = Intersection(names.p, names.q)]
    /\ UNCHANGED <<validator, driver, elementWalkerStack, misplacedDepth,
                   swallowAttributeValue,
                   suspendedWs, ignoreNextWs, ev, ret, log, cloneRun, plainRun,
                   lone, tree, simp>>

\* One of p.intersects(q), p.subtract(q) for an NsName p, and
\* p.wildcardMatch(ns, name) for each name.
CallOn(op) ==
    /\ op \notin names.called
    /\ op = "subtract" => (names.p.kind = "NsName" /\ SubtractOperand(names.q))
    /\ names' =
          [names EXCEPT
             !.called = @ \cup {op},
             !.i = IF op = "intersects" THEN Intersects(names.p, names.q) ELSE @,
             !.s = IF op = "subtract" THEN NsNameSubtract(names.p, names.q) ELSE @,
             !.w = IF op = "wildcardMatch"
                   THEN {n \in TestNs \X TestLocals :
                            WildcardMatch(names.p, n[1], n[2])}
                   ELSE @]
    /\ UNCHANGED <<validator, driver, elementWalkerStack, misplacedDepth,
                   swallowAttributeValue,
                   suspendedWs, ignoreNextWs, ev, ret, log, cloneRun, plainRun,
                   lone, tree, simp>>

NextNames ==
    \/ Intersect
    \/ \E op \in {"intersects", "subtract", "wildcardMatch"} : CallOn(op)

SpecNames == InitNames /\ [][NextNames]_vars

(***************************************************************************)
(* step10 on small schema trees                                            *)
(***************************************************************************)

\* The most Elements in a tree handed to step10.
MaxInput == 4

\* The Elements step10 has a case for.
Containers ==
    {"choice", "group", "interleave", "element", "attribute", "define",
     "oneOrMore", "list", "zeroOrMore", "optional", "mixed", "except"}

\* The shapes of the trees: the parent of each Element, Element 1 the root
\* and every parent made before its children.
InputShapes ==
    UNION {{p \in [1..n -> 0..(n - 1)] :
               p[1] = NoNode /\ \A i \in 2..n : p[i] \in 1..(i - 1)} :
           n \in 2..MaxInput}

RECURSIVE Ascending(_)
\* The numbers of S in a sequence, smallest first.
Ascending(S) ==
    IF S = {} THEN <<>>
    ELSE LET m == CHOOSE x \in S : \A y \in S : x <= y
         IN  <<m>> \o Ascending(S \ {m})

\* The Elements of a shape that have children.
Inner(p) == {p[i] : i \in DOMAIN p} \ {NoNode}

\* The tree of a shape, its inner Elements named by locals: a childless
\* Element is a name when it is the first child of an element or an
\* attribute, and a text otherwise.
InputTree(p, locals) ==
    LET children == [i \in DOMAIN p |-> Ascending({j \in DOMAIN p : p[j] = i})]
        local == [i \in DOMAIN p |->
                    IF i \in Inner(p) THEN locals[i]
                    ELSE IF /\ p[i] # NoNode
                            /\ locals[p[i]] \in {"element", "attribute"}
                            /\ children[p[i]][1] = i
                         THEN "name" ELSE "text"]
    IN  Rooted(Tree(p, children, local, [i \in DOMAIN p |-> NoAttr]), 1)

InitStep10 ==
    /\ InitWalkers
    /\ lone = NoLone
    /\ names = NoNames
    /\ tree = NoTree
    /\ \E p \in InputShapes : \E locals \in [Inner(p) -> Containers] :
          simp = Simplifying("parsed", InputTree(p, locals), NoRooted)

\* step10(el, false) on the parsed tree.
RunStep10 ==
    /\ simp.stage = "parsed"
    /\ simp' = Simplifying("step10", simp.input,
                           Step10(simp.input.h, simp.input.root))
    /\ UNCHANGED <<validator, driver, elementWalkerStack, misplacedDepth,
                   swallowAttributeValue,
                   suspendedWs, ignoreNextWs, ev, ret, log, cloneRun, plainRun,
                   lone, names, tree>>

\* step10 again, on the tree it returned.
RunStep10Again ==
    /\ simp.stage = "step10"
    /\ simp' = Simplifying("step10 again", simp.out,
                           Step10(simp.out.h, simp.out.root))
    /\ UNCHANGED <<validator, driver, elementWalkerStack, misplacedDepth,
                   swallowAttributeValue,
                   suspendedWs, ignoreNextWs, ev, ret, log, cloneRun, plainRun,
                   lone, names, tree>>

NextStep10 == RunStep10 \/ RunStep10Again

SpecStep10 == InitStep10 /\ [][NextStep10]_vars

(***************************************************************************)
(* step16 on small grammars                                                *)
(***************************************************************************)

\* An Element to be parsed: its local name, its name and its children.
Parsed(local, name, kids) == [local |-> local, name |-> name, kids |-> kids]

XText == Parsed("text", NoAttr, <<>>)

XRef(name) == Parsed("ref", name, <<>>)

\* <element><name>a</name> p </element>
XElement(p) == Parsed("element", NoAttr, <<Parsed("name", <<"a">>, <<>>), p>>)

XChoice(p, q) == Parsed("choice", NoAttr, <<p, q>>)

XDefine(name, p) == Parsed("define", name, <<p>>)

\* <grammar><start> p </start> defines </grammar>
XGrammar(p, defines) ==
    Parsed("grammar", NoAttr, <<Parsed("start", NoAttr, <<p>>)>> \o defines)

\* The names of the defines.
DefineNames == {<<"x">>, <<"y">>}

\* The patterns without children.
XLeaves == {XText} \cup {XRef(n) : n \in DefineNames}

\* The patterns of a start or of a define: a leaf, an element of a leaf, an
\* element in an element, and a choice of leaves and elements.
XPatterns ==
    XLeaves \cup {XElement(p) : p \in XLeaves} \cup {XElement(XElement(XText))}
    \cup {XChoice(p, q) : p \in XLeaves \cup {XElement(XText)},
                          q \in XLeaves \cup {XElement(XText)}}

RECURSIVE Plant(_, _, _)
RECURSIVE PlantAll(_, _, _, _)
\* The tree with the Element parsed from t added under parent, its
\* children after it.
Plant(h, t, parent) ==
    LET h1 == [h EXCEPT !.parent = Append(@, parent),
                        !.children = Append(@, <<>>),
                        !.local = Append(@, t.local),
                        !.name = Append(@, t.name)]
        h2 == IF parent = NoNode THEN h1
              ELSE [h1 EXCEPT !.children[parent] = Append(@, Newest(h1))]
    IN  PlantAll(h2, t.kids, Newest(h1), 1)

PlantAll(h, kids, parent, k) ==
    IF k > Len(kids) THEN h
    ELSE PlantAll(Plant(h, kids[k], parent), kids, parent, k + 1)

\* The tree parsed from t, its root Element 1.
ParsedTree(t) == Rooted(Plant(Tree(<<>>, <<>>, <<>>, <<>>), t, NoNode), 1)

\* The names of the second define: y, which the patterns refer to, and
\* __a-elt-1.
SecondNames == {<<"y">>, EltName(<<"a">>, 1)}

\* The grammars: a start, a define x, and a second define or none.
Grammars ==
    {XGrammar(s, <<XDefine(<<"x">>, bx)>>) : s \in XPatterns, bx \in XPatterns}
    \cup {XGrammar(s, <<XDefine(<<"x">>, bx), XDefine(n, by)>>) :
             s \in XPatterns, bx \in XPatterns, n \in SecondNames,
             by \in XPatterns}

InitStep16 ==
    /\ InitWalkers
    /\ lone = NoLone
    /\ names = NoNames
    /\ tree = NoTree
    /\ \E g \in Grammars : simp = Simplifying("parsed", ParsedTree(g), NoRooted)

\* step16(tree) on the parsed grammar.
RunStep16 ==
    /\ simp.stage = "parsed"
    /\ simp' = Simplifying("step16", simp.input,
                           Step16(simp.input.h, simp.input.root))
    /\ UNCHANGED <<validator, driver, elementWalkerStack, misplacedDepth,
                   swallowAttributeValue,
                   suspendedWs, ignoreNextWs, ev, ret, log, cloneRun, plainRun,
                   lone, names, tree>>

\* step16 again, on the tree it returned.
RunStep16Again ==
    /\ simp.stage = "step16"
    /\ simp.out.thrown = ""
    /\ simp' = Simplifying("step16 again", Rooted(simp.out.h, simp.out.root),
                           Step16(simp.out.h, simp.out.root))
    /\ UNCHANGED <<validator, driver, elementWalkerStack, misplacedDepth,
                   swallowAttributeValue,
                   suspendedWs, ignoreNextWs, ev, ret, log, cloneRun, plainRun,
                   lone, names, tree>>

NextStep16 == RunStep16 \/ RunStep16Again

SpecStep16 == InitStep16 /\ [][NextStep16]_vars

(***************************************************************************)
(* Mutator calls on a forest of Elements                                   *)
(***************************************************************************)

\* The arrays of nodes handed to appendChildren and insertAt: one node, or
\* two different ones.
NodeArrays ==
    {<<n>> : n \in Nodes} \cup {nm \in Nodes \X Nodes : nm[1] # nm[2]}

\* The calls on forest f: every mutator on every node, with every node as
\* argument, the receiver and its siblings included.
TreeCalls(f) ==
    {TreeCall(nm, t, n, 0, <<>>) :
        nm \in {"appendChild", "prependChild", "removeChild", "replaceWith",
                "grabChildren"},
        t \in Nodes, n \in Nodes}
    \cup {TreeCall("empty", t, NoNode, 0, <<>>) : t \in Nodes}
    \cup {TreeCall("appendChildren", t, NoNode, 0, ns) : t \in Nodes, ns \in NodeArrays}
    \cup {TreeCall("replaceChildWith", t, c, 0, <<r>>) : t \in Nodes, c \in Nodes, r \in Nodes}
    \cup UNION {{TreeCall("insertAt", t, NoNode, i, ns) :
                    i \in 0..Len(f.children[t]), ns \in NodeArrays}
                \cup {TreeCall("removeChildAt", t, NoNode, i, <<>>) :
                        i \in 0..Len(f.children[t])}
                \cup {TreeCall("replaceChildAt", t, r, i, <<>>) :
                        i \in 0..(Len(f.children[t]) - 1), r \in Nodes} :
                t \in Nodes}

InitTree == InitWalkers /\ lone = NoLone /\ names = NoNames /\ tree = NoTree /\ simp = NoSimp

\* One mutator call, on a forest whose parents and children agree: the
\* calls stop once they do not.
CallMutator ==
    /\ Consistent(tree.f)
    /\ \E c \in TreeCalls(tree.f) :
          tree' = TreeState(Mutate([tree.f EXCEPT !.threw = FALSE], c), c)
    /\ UNCHANGED <<validator, driver, elementWalkerStack, misplacedDepth,
                   swallowAttributeValue,
                   suspendedWs, ignoreNextWs, ev, ret, log, cloneRun, plainRun,
                   lone, names, simp>>

NextTree == CallMutator

SpecTree == InitTree /\ [][NextTree]_vars

(***************************************************************************)
(* Properties of GrammarWalker.fireEvent                                   *)
(***************************************************************************)

\* The walkers a dispatch keeps: those whose result matched, in order.
KeptWalkers(rs) ==
    LET m == SelectSeq(rs, LAMBDA r : r.matched)
    IN  [j \in 1..Len(m) |-> m[j].w]

RECURSIVE AllErrors(_, _)
\* The errors of all the results from index i on, concatenated.
AllErrors(rs, i) ==
    IF i > Len(rs) THEN <<>> ELSE rs[i].errors \o AllErrors(rs, i + 1)

RECURSIVE IsWalkerOf(_, _)
\* w is a walker (in some state of progress) of pattern p.
IsWalkerOf(w, p) ==
    CASE p.k = "Ref" ->
            IF ElementNotAllowed(p.name) THEN w.k = "NotAllowed"
            ELSE w.k = "Ref" /\ w.def = p.name
      [] p.k \in {"Choice", "Group"} ->
            w.k = p.k /\ IsWalkerOf(w.a, p.a) /\ IsWalkerOf(w.b, p.b)
      [] p.k = "Attribute" -> w.k = "Attribute" /\ w.name = p.name
      [] OTHER -> w.k = p.k

\* C1: buffered whitespace is fired on the walkers of the top frame exactly
\* when the event is endTag, the slot is filled and ignoreNextWs is clear;
\* ignoreNextWs is set exactly when the last non-text event was an endTag;
\* every event that is not whitespace text empties the slot, and when the
\* whitespace is not fired the call behaves as if the slot had been empty:
\* no walker saw it.
C1_WhitespaceForwardedOnlyOnEndTag ==
    [][ /\ (log'.wsFired <=>
              (ev'.name = "endTag" /\ ~ignoreNextWs /\ suspendedWs # Undefined))
        /\ (ev'.name # "text" => (ignoreNextWs' <=> (ev'.name = "endTag")))
        /\ (ev'.name = "text" => (ignoreNextWs' <=> ignoreNextWs))
        /\ (~IsWhitespaceText(ev') => suspendedWs' = Undefined)
        /\ ((/\ suspendedWs # Undefined
             /\ ~IsWhitespaceText(ev')
             /\ ~(ev'.name = "endTag" /\ ~ignoreNextWs)) =>
              LET r == FireEvent([Walker EXCEPT !.suspendedWs = Undefined], ev')
              IN  r.ret = ret' /\ r.s.stack = elementWalkerStack')
      ]_vars

\* An endTag fired the buffered whitespace on the top frame.
C1_Witness == ev.name = "endTag" /\ log.wsFired /\ log.dispatched

\* C2: a non-empty whitespace-only text is stored in the slot, returns
\* false, reaches no walker and leaves the stack, misplacedDepth, the
\* swallow flag and ignoreNextWs as they were.
C2_WhitespaceTextBuffered ==
    [][ (ev'.name = "text" /\ ~HasNonWs(ev'.text) /\ ev'.text # <<>>) =>
            /\ suspendedWs' = ev'.text
            /\ ret' = RetFalse
            /\ ~log'.dispatched /\ ~log'.wsFired
            /\ UNCHANGED <<elementWalkerStack, misplacedDepth,
                           swallowAttributeValue, ignoreNextWs>>
      ]_vars

\* A whitespace text was buffered inside an element, after an endTag.
C2_Witness ==
    /\ ev.name = "text" /\ suspendedWs = ev.text /\ ret = RetFalse
    /\ Len(elementWalkerStack) > 1 /\ ignoreNextWs

\* C3 as stated: every attributeName answered with errors sets the swallow
\* flag, and with the flag set the next event is either an attributeValue,
\* discarded without error and without dispatch, or any other event (empty
\* text aside), answered with the one error "attribute value required".
C3_SwallowAsStated ==
    /\ (ev.name = "attributeName" /\ ret.t = "errors") => swallowAttributeValue
    /\ (log.pre.swallow /\ ~(ev.name = "text" /\ ev.text = <<>>)) =>
          IF ev.name = "attributeValue"
          THEN ret = RetFalse /\ ~log.dispatched /\ ~swallowAttributeValue
          ELSE ret = RetErrors(<<ValidationError("attribute value required")>>)

\* C3 (amended): a dispatched attributeName that no walker accepts is
\* answered "attribute not allowed here" and sets the swallow flag; while
\* the flag is set whitespace-only text leaves it set and is not dispatched;
\* the first other event clears the flag without being dispatched: an
\* attributeValue returns false, anything else the one error "attribute
\* value required".
C3_SwallowOneAttributeValue ==
    /\ (ev.name = "attributeName" /\ log.dispatched /\ ~log.matched) =>
          /\ swallowAttributeValue
          /\ ret = RetErrors(<<AttributeNameError("attribute not allowed here",
                                                  Name(ev.ns, ev.local))>>)
    /\ log.pre.swallow =>
          IF IsWhitespaceText(ev)
          THEN swallowAttributeValue /\ ~log.dispatched
          ELSE /\ ~log.dispatched
               /\ ~swallowAttributeValue
               /\ ret = IF ev.name = "attributeValue" THEN RetFalse
                        ELSE RetErrors(<<ValidationError("attribute value required")>>)

\* The attributeValue after a rejected attributeName was swallowed.
C3_Witness ==
    log.pre.swallow /\ ev.name = "attributeValue" /\ ret = RetFalse
    /\ ~swallowAttributeValue

\* C4: a dispatch to a frame of several walkers keeps exactly the matching
\* walkers, in order, and drops the errors of the rejecting ones; when none
\* matches, every walker stays and the errors are those of all of them.
C4_DispatchKeepsMatchingWalkers ==
    (log.dispatched /\ Len(log.frame) > 1) =>
        LET rs == FrameResults(log.frame, ev)
        IN  IF \E i \in 1..Len(rs) : rs[i].matched
            THEN /\ log.matched
                 /\ log.frameAfter = KeptWalkers(rs)
                 /\ log.errors = <<>>
                 /\ ret.t = "errors" =>
                       ret.errors = <<ValidationError("text not allowed here")>>
            ELSE /\ ~log.matched
                 /\ log.frameAfter = [i \in 1..Len(rs) |-> rs[i].w]
                 /\ log.errors = AllErrors(rs, 1)
                 /\ log.errors # <<>> => ret = RetErrors(log.errors)

\* Of several walkers some matched and one that rejected had errors to report.
C4_Witness ==
    /\ log.dispatched /\ Len(log.frame) > 1 /\ log.matched
    /\ Len(log.frameAfter) < Len(log.frame)
    /\ \E i \in 1..Len(log.frame) :
          LET r == WalkerFire(log.frame[i], ev)
          IN  ~r.matched /\ r.errors # <<>>

\* C5: a matched start tag whose walkers return refs pushes one frame with
\* one new element walker per ref, in order, and returns false.
C5_StartTagPushesRefFrame ==
    (IsStartTag(ev.name) /\ log.dispatched /\ log.matched /\ log.refs # <<>>) =>
        /\ ret = RetFalse
        /\ Len(elementWalkerStack) = log.pre.depth + 1
        /\ Len(Top(elementWalkerStack)) = Len(log.refs)
        /\ \A i \in 1..Len(log.refs) :
              LET w == Top(elementWalkerStack)[i]
              IN  /\ w.k = "Element" /\ w.def = log.refs[i]
                  /\ w.boundName = Name(ev.ns, ev.local)
                  /\ ev.name = "enterStartTag" =>
                        w = ElementNewWalker(log.refs[i], Name(ev.ns, ev.local))

\* C6: on startTagAndAttributes with several refs, the refs whose new walker
\* rejects the attributes are dropped and the others form the new frame.
C6_RejectingRefDiscarded ==
    (ev.name = "startTagAndAttributes" /\ log.dispatched /\ Len(log.refs) > 1) =>
        LET rs == RefWalkerResults(log.refs, ev)
            kept == KeptWalkers(rs)
        IN  (kept # <<>> /\ \E i \in 1..Len(rs) : ~rs[i].matched) =>
               /\ ret.t # "throw"
               /\ Len(elementWalkerStack) = log.pre.depth + 1
               /\ Top(elementWalkerStack) = kept

\* C7: no event of the vocabulary with a payload makes fireEvent throw,
\* whatever the document failure (leaveStartTag counted when a start tag is
\* open in the top frame).
C7_NoThrowOnDocumentFailure ==
    (\/ ev.name \in {"enterStartTag", "startTagAndAttributes", "attributeName",
                     "attributeValue", "attributeNameAndValue", "endTag"}
     \/ (ev.name = "text" /\ ev.text # <<>>)
     \/ (/\ ev.name = "leaveStartTag" /\ log.dispatched
         /\ \A i \in 1..Len(log.frame) :
               \/ log.frame[i].k = "Misplaced"
               \/ (log.frame[i].k = "Element" /\ ~log.frame[i].endedStartTag)))
    => ret.t # "throw"

\* C8: a dispatched endTag pops exactly the top frame when there is more
\* than one frame, accepted or not, and counts misplacedDepth down when it
\* is positive; any other call leaves every frame below the top in place and
\* lowers neither the stack nor misplacedDepth.
C8_EndTagPopsOneFrame ==
    [][ IF ev'.name = "endTag" /\ log'.dispatched
        THEN /\ elementWalkerStack' =
                   IF Len(elementWalkerStack) > 1
                   THEN Pop(elementWalkerStack)
                   ELSE << log'.frameAfter >>
             /\ misplacedDepth' =
                   IF misplacedDepth > 0 THEN misplacedDepth - 1 ELSE misplacedDepth
        ELSE /\ Len(elementWalkerStack') >= Len(elementWalkerStack)
             /\ SubSeq(elementWalkerStack', 1, Len(elementWalkerStack) - 1) =
                   Pop(elementWalkerStack)
             /\ misplacedDepth' >= misplacedDepth
      ]_vars

\* An endTag that the top frame rejected popped that frame all the same.
C8_Witness ==
    /\ ev.name = "endTag" /\ log.dispatched /\ ~log.matched
    /\ log.pre.depth > 1 /\ Len(elementWalkerStack) = log.pre.depth - 1

\* C9: the stack always holds at least one frame, and the bottom frame is
\* the one made for the grammar's start pattern: a single walker of it.
C9_RootFrameKept ==
    /\ Len(elementWalkerStack) >= 1
    /\ Len(elementWalkerStack[1]) = 1
    /\ IsWalkerOf(elementWalkerStack[1][1], GrammarStart)

\* An endTag was dispatched when only the root frame was on the stack.
C9_Witness ==
    /\ ev.name = "endTag" /\ log.dispatched /\ log.pre.depth = 1
    /\ Len(elementWalkerStack) = 1

\* C10: a dispatched start tag that no walker of the top frame accepts
\* pushes exactly one frame, holding either one walker of an element
\* definition with that name or the sentinel walker, above the frames that
\* were there; an endTag dispatched next brings the stack back to the depth
\* it had before the start tag.
C10_RejectedStartTagPushesOneFrame ==
    [][ /\ (IsStartTag(ev'.name) /\ log'.dispatched /\ ~log'.matched) =>
              /\ Len(elementWalkerStack') = Len(elementWalkerStack) + 1
              /\ Pop(elementWalkerStack') =
                    SetTop(elementWalkerStack, log'.frameAfter)
              /\ Len(Top(elementWalkerStack')) = 1
              /\ LET w == Top(elementWalkerStack')[1]
                 IN  \/ w = MisplacedElementWalker
                     \/ /\ w.k = "Element"
                        /\ NameMatch(GrammarDefinitions[w.def].name,
                                     ev'.ns, ev'.local)
        /\ (/\ IsStartTag(ev.name) /\ log.dispatched /\ ~log.matched
            /\ ev'.name = "endTag" /\ log'.dispatched) =>
              Len(elementWalkerStack') = log.pre.depth
      ]_vars

\* A misplaced start tag pushed a walker of the one definition of its name.
C10_Witness ==
    /\ IsStartTag(ev.name) /\ log.dispatched /\ ~log.matched
    /\ misplacedDepth = 0
    /\ Len(elementWalkerStack) = log.pre.depth + 1
    /\ Top(elementWalkerStack)[1].k = "Element"

\* C11: a start tag no walker accepts, outside dumb mode, with exactly one
\* element definition under its name in the grammar's index, pushes a frame
\* holding one walker of that definition, returns one ElementNameError and
\* leaves misplacedDepth at 0.  (The index is read as the code keys it: by
\* namespace and local name.)
C11_SingleCandidateInferred ==
    LET elName == Name(ev.ns, ev.local)
        candidates == ElementDefinitions(NameToString(elName))
    IN  (/\ IsStartTag(ev.name) /\ log.dispatched /\ ~log.matched
         /\ log.errors = <<>> /\ log.pre.misplacedDepth = 0
         /\ Len(candidates) = 1) =>
            /\ Len(elementWalkerStack) = log.pre.depth + 1
            /\ Len(Top(elementWalkerStack)) = 1
            /\ Top(elementWalkerStack)[1].k = "Element"
            /\ Top(elementWalkerStack)[1].def = candidates[1]
            /\ ev.name = "enterStartTag" =>
                  Top(elementWalkerStack)[1] = ElementNewWalker(candidates[1], elName)
            /\ ret.t = "errors" /\ Len(ret.errors) = 1
            /\ ret.errors[1].cls = "ElementNameError"
            /\ misplacedDepth = 0

\* The top n frames of the stack are sentinel frames.
SentinelFrames(stack, n) ==
    /\ n < Len(stack)
    /\ \A i \in (Len(stack) - n + 1)..Len(stack) : stack[i] = <<MisplacedElementWalker>>

\* C12: a rejected start tag with zero or several candidates enters dumb
\* mode with one sentinel frame and one error; in dumb mode (misplacedDepth
\* frames of sentinels on top) attribute, leaveStartTag, non-empty text and
\* endTag events return no error, a start tag pushes one more sentinel and
\* returns no error, an endTag pops one sentinel and counts misplacedDepth
\* down, and nothing else moves either: misplacedDepth is back at 0 exactly
\* at the endTag that balances the entering tag, with the stack at the depth
\* it had before.
C12_DumbModeBalanced ==
    [][ /\ (/\ IsStartTag(ev'.name) /\ log'.dispatched /\ ~log'.matched
            /\ misplacedDepth = 0
            /\ Len(ElementDefinitions(NameToString(Name(ev'.ns, ev'.local)))) # 1) =>
              /\ misplacedDepth' = 1
              /\ elementWalkerStack' =
                    Append(SetTop(elementWalkerStack, log'.frameAfter),
                           <<MisplacedElementWalker>>)
              /\ ret'.t = "errors" /\ Len(ret'.errors) = 1
        /\ misplacedDepth > 0 =>
              /\ SentinelFrames(elementWalkerStack, misplacedDepth)
              /\ SentinelFrames(elementWalkerStack', misplacedDepth')
              /\ ~swallowAttributeValue
              /\ (\/ IsAttributeEvent(ev'.name)
                  \/ ev'.name \in {"leaveStartTag", "endTag"}
                  \/ IsStartTag(ev'.name)
                  \/ (ev'.name = "text" /\ ev'.text # <<>>)) => ret' = RetFalse
              /\ CASE IsStartTag(ev'.name) ->
                        /\ misplacedDepth' = misplacedDepth + 1
                        /\ elementWalkerStack' =
                              Append(elementWalkerStack, <<MisplacedElementWalker>>)
                   [] ev'.name = "endTag" ->
                        /\ misplacedDepth' = misplacedDepth - 1
                        /\ elementWalkerStack' = Pop(elementWalkerStack)
                   [] OTHER ->
                        UNCHANGED <<misplacedDepth, elementWalkerStack>>
      ]_vars

\* The endTag balancing the tag that entered dumb mode left the mode.
C12_Witness ==
    /\ ev.name = "endTag" /\ log.pre.misplacedDepth = 1 /\ misplacedDepth = 0
    /\ ret = RetFalse /\ Len(elementWalkerStack) = log.pre.depth - 1

\* C13: canEnd() is true exactly when the stack holds one frame and the
\* walker of that frame can end; the root frame holds one walker, so canEnd
\* looks at every walker of it.
C13_CanEndIffRootWalkerCanEnd ==
    /\ GrammarWalkerCanEnd(Walker) <=>
          (/\ Len(elementWalkerStack) = 1
           /\ \A i \in 1..Len(elementWalkerStack[1]) :
                 CanEnd(elementWalkerStack[1][i]))
    /\ Len(elementWalkerStack[1]) = 1

\* Inside an open element whose walker could end, canEnd() is false.
C13_Witness ==
    /\ Len(elementWalkerStack) > 1
    /\ CanEnd(Top(elementWalkerStack)[1])
    /\ ~GrammarWalkerCanEnd(Walker)

\* The errors of end() on the walkers j.. of frame i and then of the frames
\* below it, counted from the top of the stack down.
RECURSIVE EndErrorsFrom(_, _, _)
EndErrorsFrom(stack, i, j) ==
    IF i = 0 THEN <<>>
    ELSE IF j > Len(stack[i]) THEN EndErrorsFrom(stack, i - 1, 1)
    ELSE WalkerEnd(stack[i][j]) \o EndErrorsFrom(stack, i, j + 1)

\* C14: end() returns false exactly when no walker of any frame on the stack
\* reports an error from its end(); otherwise it returns the errors of all
\* the walkers, from the innermost frame to the root.
C14_EndReportsAllFrames ==
    LET r == GrammarWalkerEnd(Walker)
    IN  /\ r.t # "throw"
        /\ (r = RetFalse) <=>
              \A i \in 1..Len(elementWalkerStack) :
                 \A j \in 1..Len(elementWalkerStack[i]) :
                    WalkerEnd(elementWalkerStack[i][j]) = <<>>
        /\ r.t = "errors" =>
              r.errors = EndErrorsFrom(elementWalkerStack, Len(elementWalkerStack), 1)

\* end() reports an error of a walker below the top frame, whose own
\* walkers have none.
C14_Witness ==
    /\ Len(elementWalkerStack) > 1
    /\ EndFrame(Top(elementWalkerStack), 1) = <<>>
    /\ GrammarWalkerEnd(Walker).t = "errors"

\* C15: a clone starts in the state of the walker it was made from; firing
\* events on the clone leaves the walker's stack, its walkers,
\* misplacedDepth, the swallow flag, the whitespace slot and ignoreNextWs as
\* they were, and a clone made afterwards returns, fed the same events, what
\* the first clone returned.
C15_CloneIsIndependent ==
    [][ /\ (~cloneRun.made /\ cloneRun'.made) =>
              cloneRun'.cloned = Walker
        /\ cloneRun.made =>
              /\ UNCHANGED <<elementWalkerStack, misplacedDepth,
                             swallowAttributeValue, suspendedWs, ignoreNextWs>>
              /\ Replay(GrammarWalkerClone(Walker'), cloneRun'.sigma, 1) =
                    cloneRun'.results
      ]_vars

\* Two events changed the clone of a walker that holds the singleton inside
\* an open element.
C15_Witness ==
    /\ cloneRun.made /\ Len(cloneRun.sigma) = 2
    /\ cloneRun.cloned.stack # elementWalkerStack
    /\ Len(elementWalkerStack) > 1
    /\ \E j \in 1..Len(Top(elementWalkerStack)) :
          HoldsSingleton(Top(elementWalkerStack)[j])

\* C16: with whitespace inserted at element boundaries, every tag event
\* returns what it returns in the document without the whitespace, and
\* canEnd() and end() give the same results.
C16_WhitespaceNeutral ==
    ev.name # "text" =>
        /\ ret = plainRun.ret
        /\ GrammarWalkerCanEnd(Walker) = GrammarWalkerCanEnd(plainRun.w)
        /\ GrammarWalkerEnd(Walker) = GrammarWalkerEnd(plainRun.w)

(***************************************************************************)
(* Properties of RefWalker and of Pattern.hasEmptyPattern                  *)
(***************************************************************************)

\* C17: a RefWalker accepts at most one event: the first start tag event
\* whose name matches the element's name class is matched, with the walker
\* as its only ref, and sets canEnd; every other event, before or after,
\* is rejected and leaves the walker as it was.
C17_RefWalkerAcceptsOnce ==
    [][ lone.w.k = "Ref" =>
          LET e == lone'.e
              first == /\ lone.accepts = 0
                       /\ IsStartTag(e.name)
                       /\ NameMatch(GrammarDefinitions[lone.w.def].name,
                                    e.ns, e.local)
          IN  /\ IF first
                 THEN /\ lone'.matched
                      /\ lone'.refs = <<lone.w.def>>
                      /\ lone'.w = [lone.w EXCEPT !.canEnd = TRUE]
                 ELSE /\ ~lone'.matched
                      /\ lone'.refs = <<>>
                      /\ lone'.w = lone.w
              /\ lone'.accepts <= 1
      ]_vars

\* A start tag of the element's name was fired on a RefWalker that had
\* accepted one already, after an event that did not match.
C17_Witness ==
    /\ lone.w.k = "Ref"
    /\ lone.fired = 3
    /\ lone.accepts = 1
    /\ ~lone.matched
    /\ IsStartTag(lone.e.name)
    /\ NameMatch(GrammarDefinitions[lone.w.def].name, lone.e.ns, lone.e.local)

\* C18: RefWalker.end() returns one ElementNameError "tag required" with
\* the element's name class exactly when the walker has accepted no start
\* tag, and false once it has; endAttributes() returns false.
C18_RefWalkerEndTagRequired ==
    lone.w.k = "Ref" =>
        /\ (WalkerEnd(lone.w) =
               <<ElementNameError("tag required",
                                  GrammarDefinitions[lone.w.def].name)>>)
              <=> lone.accepts = 0
        /\ lone.accepts > 0 => WalkerEnd(lone.w) = <<>>
        /\ WalkerEndAttributes(lone.w) = <<>>

\* A RefWalker that accepted its start tag, and was fired on again, ends
\* without an error.
C18_Witness ==
    /\ lone.w.k = "Ref"
    /\ lone.accepts = 1
    /\ lone.fired > 1
    /\ ~lone.matched
    /\ WalkerEnd(lone.w) = <<>>

\* C19: hasEmptyPattern() of a pattern is true exactly when the canEnd of a
\* walker fresh from its newWalker() is true.
C19_EmptyPatternIffCanEnd ==
    lone.fired = 0 => (HasEmptyPattern(lone.pat) <=> CanEnd(lone.w))

(***************************************************************************)
(* Properties of the name patterns                                         *)
(***************************************************************************)

\* C20: p.intersection(q) returns a pattern or 0 that matches a name
\* exactly when p and q both match it.
C20_IntersectionMatchesBoth ==
    names.applied =>
        /\ ~IsThrown(names.r)
        /\ \A ns \in TestNs, l \in TestLocals :
              Match(names.r, ns, l) <=>
                 (Match(names.p, ns, l) /\ Match(names.q, ns, l))

\* C21: p.intersects(q) is true exactly when some name is matched by both
\* p and q.
C21_IntersectsIffCommonName ==
    "intersects" \in names.called =>
        (names.i = "true" <=>
            \E ns \in TestNs, l \in TestLocals :
                Match(names.p, ns, l) /\ Match(names.q, ns, l))

\* C22: for a single Name n, p.intersects(n) and n.intersects(p) are both
\* p.match(n.ns, n.name).
C22_IntersectsNameIsMatch ==
    ("intersects" \in names.called /\ names.q.kind = "Name") =>
        /\ names.i = Bool(Match(names.p, names.q.ns, names.q.name))
        /\ Intersects(names.q, names.p) = names.i

\* An NsName whose except holds the name, and an AnyName whose except does
\* not, were asked whether they intersect the name.
C22_Witness ==
    /\ "intersects" \in names.called
    /\ names.q.kind = "Name"
    /\ names.p.kind \in {"NsName", "AnyName"}
    /\ HasExcept(names.p)
    /\ names.p.except.kind = "NameChoice"
    /\ names.i = "false"
    /\ names.p.kind = "NsName" => names.p.ns = names.q.ns

\* C23: intersects and intersection return a result for every ordered pair
\* of name patterns: neither throws.
C23_IntersectTotal ==
    /\ names.applied => ~IsThrown(names.r)
    /\ "intersects" \in names.called => names.i # "throw"

\* C24: p.subtract(x) of an NsName p matches a name exactly when p matches
\* it and x does not, and is 0 exactly when there is no such name.
C24_SubtractIsDifference ==
    "subtract" \in names.called =>
        /\ ~IsThrown(names.s)
        /\ \A ns \in TestNs, l \in TestLocals :
              Match(names.s, ns, l) <=>
                 (Match(names.p, ns, l) /\ ~Match(names.q, ns, l))
        /\ IsZero(names.s) <=>
              ~\E ns \in TestNs, l \in TestLocals :
                  Match(names.p, ns, l) /\ ~Match(names.q, ns, l)

RECURSIVE NameAlternativeMatches(_, _, _)
\* Some Name among the alternatives of p matches (ns, name).
NameAlternativeMatches(p, ns, name) ==
    CASE p.kind = "Name" -> NameMatch(p, ns, name)
      [] p.kind = "NameChoice" ->
            NameAlternativeMatches(p.a, ns, name) \/ NameAlternativeMatches(p.b, ns, name)
      [] OTHER -> FALSE

\* C25: wildcardMatch(ns, name) is true exactly when the pattern matches
\* the name and no Name alternative of it does: the match is due to an
\* NsName or an AnyName only.
C25_WildcardMatchOnlyWildcard ==
    "wildcardMatch" \in names.called =>
        \A ns \in TestNs, l \in TestLocals :
            (<<ns, l>> \in names.w) <=>
                (Match(names.p, ns, l) /\ ~NameAlternativeMatches(names.p, ns, l))

(***************************************************************************)
(* Properties of the Element tree                                          *)
(***************************************************************************)

\* C26: after any sequence of mutator calls every node with a parent occurs
\* exactly once in the parent's children and every child has the owner of
\* its array as parent.
C26_ParentChildrenAgree == Consistent(tree.f)

\* C27: p.replaceChildWith(c, r) on a child c of p and another node r puts
\* r where c stood among the other children of p, which keep their order;
\* c is left without a parent and out of p.children, and r has p as parent.
C27_ReplaceChildWithInPlace ==
    [][ LET c == tree'.call.node
            p == tree'.call.this
            r == tree'.call.nodes[1]
            old == tree.f.children[p]
            k == IndexOf(old, c)
            other(n) == n # c /\ n # r
        IN  (/\ tree'.call.name = "replaceChildWith"
             /\ Consistent(tree.f)
             /\ tree.f.parent[c] = p
             /\ r # c) =>
               /\ ~tree'.f.threw
               /\ tree'.f.children[p] =
                     SelectSeq(SubSeq(old, 1, k - 1), other) \o <<r>>
                        \o SelectSeq(SubSeq(old, k + 1, Len(old)), other)
               /\ tree'.f.parent[c] = NoNode
               /\ tree'.f.parent[r] = p
      ]_vars
(***************************************************************************)
(* Properties of step10                                                    *)
(***************************************************************************)

\* The number of children the simplified form allows Element el, if it is
\* one the form says something about.
ArityOk(h, el) ==
    LET n == Len(h.children[el])
    IN  CASE h.local[el] \in {"choice", "group", "interleave", "element",
                               "attribute"} -> n = 2
          [] h.local[el] \in {"define", "oneOrMore", "list", "except"} -> n = 1
          [] h.local[el] \in {"zeroOrMore", "optional", "mixed"} -> FALSE
          [] OTHER -> TRUE

\* Every Element of the tree has the number of children of the simplified
\* form.
Binary(t) == \A el \in Descendants(t.h, t.root) : ArityOk(t.h, el)

NamedPatterns(t) ==
    \A el \in Descendants(t.h, t.root) :
        /\ t.h.local[el] = "element" => Len(t.h.children[el]) >= 2
        /\ t.h.local[el] = "attribute" => Len(t.h.children[el]) <= 2

Step16Returned == simp.stage = "step16" /\ simp.out.thrown = ""

\* Every element of the tree is the child of a define.
ElementsInDefines(t) ==
    \A el \in Descendants(t.h, t.root) :
        t.h.local[el] = "element"
            => (t.h.parent[el] # NoNode /\ t.h.local[t.h.parent[el]] = "define")

\* Every define among the children of the root has one child, an element.
DefinesHoldElement(t) ==
    \A k \in 1..Len(t.h.children[t.root]) :
        LET def == t.h.children[t.root][k]
        IN  t.h.local[def] = "define"
                => /\ Len(t.h.children[def]) = 1
                   /\ t.h.local[t.h.children[def][1]] = "element"

\* Every element of the input that was not the child of a define is now
\* the only child of a define of the grammar, and where it was there is a
\* ref with the name of that define, which no other define has.
RefsInPlace(in, t) ==
    \A el \in Descendants(in.h, in.root) :
        (in.h.local[el] = "element" /\ in.h.local[in.h.parent[el]] # "define")
            => LET p == in.h.parent[el]
                   k == IndexOf(in.h.children[p], el)
                   ref == t.h.children[p][k]
                   def == t.h.parent[el]
               IN  /\ t.h.local[ref] = "ref"
                   /\ def # NoNode
                   /\ t.h.local[def] = "define"
                   /\ t.h.parent[def] = t.root
                   /\ t.h.children[def] = <<el>>
                   /\ t.h.name[ref] = t.h.name[def]
                   /\ \A j \in 1..Len(t.h.children[t.root]) :
                         LET other == t.h.children[t.root][j]
                         IN  (/\ t.h.local[other] = "define"
                              /\ t.h.name[other] = t.h.name[ref]) => other = def

\* C29: after step16 every element is the direct child of a define, every
\* define of the grammar has exactly one child, an element, and each
\* element that was not under a define is replaced where it stood by a ref
\* naming its new define.
C29_ElementsWrapped ==
    Step16Returned
        => /\ ElementsInDefines(simp.out)
           /\ DefinesHoldElement(simp.out)
           /\ RefsInPlace(simp.input, simp.out)

\* No define of the grammar has a name of the form step16 gives its own.
OwnNames(t) ==
    \A d \in Descendants(t.h, t.root) :
        t.h.local[d] = "define" => Len(t.h.name[d]) = 1

\* C29 for the grammars whose defines have names of their own only.
C29_ElementsWrappedOwnNames ==
    (Step16Returned /\ OwnNames(simp.input))
        => /\ ElementsInDefines(simp.out)
           /\ DefinesHoldElement(simp.out)
           /\ RefsInPlace(simp.input, simp.out)

\* An element inside an element, each now in a define of its own, and a
\* define without element that step16 removed.
C29_Witness ==
    /\ Step16Returned
    /\ OwnNames(simp.input)
    /\ RefsInPlace(simp.input, simp.out)
    /\ \E el \in Descendants(simp.input.h, simp.input.root) :
          /\ simp.input.h.local[el] = "element"
          /\ simp.input.h.local[simp.input.h.parent[el]] = "element"
          /\ simp.out.h.local[simp.out.h.parent[el]] = "define"
    /\ \E d \in Descendants(simp.input.h, simp.input.root) :
          /\ simp.input.h.local[d] = "define"
          /\ simp.input.h.local[simp.input.h.children[d][1]] = "choice"
          /\ simp.out.h.parent[d] = NoNode

RECURSIVE ExposedRefs(_, _)
\* The names of the refs at or below el that are not inside an element.
ExposedRefs(h, el) ==
    IF h.local[el] = "ref" THEN {h.name[el]}
    ELSE IF h.local[el] = "element" THEN {}
    ELSE UNION {ExposedRefs(h, h.children[el][k]) : k \in 1..Len(h.children[el])}

\* The defines of the grammar whose child is not an element.
ElementLess(t) ==
    {d \in Descendants(t.h, t.root) :
        t.h.local[d] = "define" /\ t.h.local[t.h.children[d][1]] # "element"}

\* Define d refers to define e outside any element.
RefersTo(t, d, e) == t.h.name[e] \in ExposedRefs(t.h, t.h.children[d][1])

RECURSIVE RefersThrough(_, _, _, _)
\* Define d refers to define e, directly or through at most n defines
\* without element.
RefersThrough(t, d, e, n) ==
    \/ RefersTo(t, d, e)
    \/ /\ n > 0
       /\ \E m \in ElementLess(t) : RefersTo(t, d, m) /\ RefersThrough(t, m, e, n - 1)

\* A define without element refers to itself, directly or through other
\* defines without element.
SelfReferential(t) ==
    \E d \in ElementLess(t) : RefersThrough(t, d, d, Cardinality(ElementLess(t)))

\* C30: step16 throws SchemaValidationError for every grammar in which a
\* define whose child is not an element refers to itself, directly or
\* through other defines without element.
C30_SelfReferenceRejected ==
    (simp.stage = "step16" /\ SelfReferential(simp.input))
        => simp.out.thrown = "SchemaValidationError"

\* The defines among the children of the root.
DefinesOf(t) ==
    {t.h.children[t.root][k] : k \in 1..Len(t.h.children[t.root])}
        \cap {d \in DOMAIN t.h.local : t.h.local[d] = "define"}

\* The refs of the tree.
RefsOf(t) == {r \in Descendants(t.h, t.root) : t.h.local[r] = "ref"}

\* C31: after step16 every define left in the grammar is named by a ref
\* that is in the tree, also when the only refs to it were in a define
\* that step16 removed.
C31_NoUnreferencedDefine ==
    Step16Returned
        => \A d \in DefinesOf(simp.out) :
              \E r \in RefsOf(simp.out) : simp.out.h.name[r] = simp.out.h.name[d]

\* The refs with a name step16 made: those of wrapElements and their
\* clones.
SynthesizedRefs(t) == {r \in RefsOf(t) : Len(t.h.name[r]) > 1}

\* C32: after step16 no two defines of the grammar have the same name, and
\* every ref step16 made names exactly one define.
C32_SynthesizedNamesUnique ==
    Step16Returned
        => /\ \A d \in DefinesOf(simp.out) : \A e \in DefinesOf(simp.out) :
                 simp.out.h.name[d] = simp.out.h.name[e] => d = e
           /\ \A r \in SynthesizedRefs(simp.out) :
                 Cardinality({d \in DefinesOf(simp.out) :
                                 simp.out.h.name[d] = simp.out.h.name[r]}) = 1

RECURSIVE Shape(_, _)
\* The tree below el as a value: the local name, the name and the shapes
\* of the children, in order.
Shape(h, el) ==
    Parsed(h.local[el], h.name[el],
           [k \in 1..Len(h.children[el]) |-> Shape(h, h.children[el][k])])

\* A second run of the step returned the tree it was given.
SameTree == Shape(simp.out.h, simp.out.root) = Shape(simp.input.h, simp.input.root)

\* C33: step10 on a tree step10 returned, and step16 on a tree step16
\* returned, return a tree with the same names, children and attributes.
C33_Idempotent ==
    /\ simp.stage = "step10 again" => SameTree
    /\ simp.stage = "step16 again" => (simp.out.thrown = "" /\ SameTree)

\* The define of the tree named name (the last of them, as in a Map), and
\* NoNode if there is none.
DefineNamed(t, name) ==
    LET ks == {k \in 1..Len(t.h.children[t.root]) :
                  /\ t.h.local[t.h.children[t.root][k]] = "define"
                  /\ t.h.name[t.h.children[t.root][k]] = name}
    IN  IF ks = {} THEN NoNode
        ELSE t.h.children[t.root][CHOOSE k \in ks : \A j \in ks : j <= k]

\* The names of the defines whose child is not an element.
RemovedNames(t) == {t.h.name[d] : d \in ElementLess(t)}

RECURSIVE Inlined(_, _)
\* What step16 is to leave of the tree below el: a ref with the name made
\* for it in place of an element that is not in a define, the content of
\* the define in place of a ref to a define without element, their refs
\* replaced likewise.
Inlined(t, el) ==
    LET els == FindDescendantsByLocalName(t.h, t.root, "element")
        here == IF t.h.local[el] = "element" /\ t.h.local[t.h.parent[el]] # "define"
                THEN Parsed("ref",
                            EltName(t.h.name[t.h.children[el][1]], IndexOf(els, el)),
                            <<>>)
                ELSE Parsed(t.h.local[el], t.h.name[el], <<>>)
    IN  IF here.local = "ref" /\ here.name \in RemovedNames(t)
        THEN Inlined(t, t.h.children[DefineNamed(t, here.name)][1])
        ELSE IF here.local = "ref" THEN here
        ELSE Parsed(t.h.local[el], t.h.name[el],
                    [k \in 1..Len(t.h.children[el]) |->
                        Inlined(t, t.h.children[el][k])])

\* C34: when step16 returns, no ref of the tree names a define whose
\* child was not an element, what stands under start and in the defines
\* that are kept is what the input had there with every such ref replaced
\* by the content of its define, the refs in that content replaced too,
\* and no node is at two places.
C34_RefsInlined ==
    Step16Returned
        => /\ \A r \in RefsOf(simp.out) :
                 simp.out.h.name[r] \notin RemovedNames(simp.input)
           /\ Shape(simp.out.h, simp.out.h.children[simp.out.root][1])
                 = Inlined(simp.input, simp.input.h.children[simp.input.root][1])
           /\ \A d \in DefinesOf(simp.out) \cap DOMAIN simp.input.h.local :
                 Shape(simp.out.h, d) = Inlined(simp.input, d)
           /\ Consistent(simp.out.h)

\* start is a choice of two refs to x, x a choice of a ref to y and a
\* text, y a text: both refs are replaced by a choice of two texts.
C34_Witness ==
    /\ Step16Returned
    /\ Shape(simp.input.h, 1)
          = XGrammar(XChoice(XRef(<<"x">>), XRef(<<"x">>)),
                     <<XDefine(<<"x">>, XChoice(XRef(<<"y">>), XText)),
                       XDefine(<<"y">>, XText)>>)
    /\ Shape(simp.out.h, simp.out.root)
          = Parsed("grammar", NoAttr,
                   <<Parsed("start", NoAttr,
                            <<XChoice(XChoice(XText, XText),
                                      XChoice(XText, XText))>>)>>)
(***************************************************************************)
(* Further invariants of the GrammarWalker                                 *)
(***************************************************************************)

\* Frame i of the stack holds a sentinel walker.
HoldsSentinel(stack, i) ==
    \E j \in 1..Len(stack[i]) : stack[i][j] = MisplacedElementWalker

\* C35: misplacedDepth is between 0 and the depth of the stack less one,
\* and the frames that hold a sentinel MisplacedElementWalker are exactly
\* the misplacedDepth topmost ones, so none lies below a frame without
\* sentinel.
C35_SentinelsOnTop ==
    /\ misplacedDepth \in 0..(Len(elementWalkerStack) - 1)
    /\ \A i \in 1..Len(elementWalkerStack) :
          HoldsSentinel(elementWalkerStack, i)
              <=> i > Len(elementWalkerStack) - misplacedDepth

\* Two sentinel frames on a frame without sentinel.
C35_Witness ==
    /\ misplacedDepth = 2
    /\ Len(elementWalkerStack) >= 3
    /\ ~HoldsSentinel(elementWalkerStack, Len(elementWalkerStack) - 2)

\* C36: in every reachable state of the GrammarWalker every frame of the
\* stack holds at least one walker; neither the dispatch, nor the flush of
\* the buffered whitespace, nor the descent into an element, nor the recovery
\* leaves or pushes an empty frame.
C36_NoEmptyFrame ==
    \A i \in 1..Len(elementWalkerStack) : Len(elementWalkerStack[i]) >= 1

\* A frame of several walkers was filtered by a dispatch and walkers remain:
\* the case where a frame loses walkers.
C36_Witness ==
    /\ log.dispatched
    /\ Len(log.frame) > 1
    /\ Len(log.frameAfter) < Len(log.frame)
    /\ Len(elementWalkerStack) >= 2

\* The event of a step is swallowed: the flag is set when the call begins
\* and the event is neither pure-whitespace text nor attributeValue.
SwallowedStep ==
    /\ swallowAttributeValue
    /\ ~IsWhitespaceText(ev')
    /\ ev'.name # "attributeValue"

\* C37: when the swallow flag is set and the next event that is not
\* pure-whitespace text is anything other than attributeValue, the event is
\* not dispatched: the walkers of the top frame are those the call found
\* (or those the flush of the buffered whitespace before an endTag left),
\* no frame is pushed or popped, misplacedDepth is unchanged and the call
\* answers "attribute value required".
C37_SwallowedNotDispatched ==
    [][SwallowedStep =>
          /\ ~log'.dispatched
          /\ elementWalkerStack' =
                 IF log'.wsFired
                 THEN FireSuspendedWsOnCurrentWalkers(elementWalkerStack,
                                                      suspendedWs).stack
                 ELSE elementWalkerStack
          /\ Len(elementWalkerStack') = Len(elementWalkerStack)
          /\ misplacedDepth' = misplacedDepth
          /\ ~swallowAttributeValue'
          /\ ret' = RetErrors(<<ValidationError("attribute value required")>>)]_vars

\* An endTag was swallowed below the root frame, where a dispatched endTag
\* would have popped.
C37_Witness ==
    /\ log.pre.swallow
    /\ ev.name = "endTag"
    /\ ~log.dispatched
    /\ log.pre.depth >= 2
    /\ Len(elementWalkerStack) = log.pre.depth

(***************************************************************************)
(* Termination of step16                                                   *)
(***************************************************************************)

\* C38: step16 terminates on every finite grammar, returning a tree or
\* raising SchemaValidationError, grammars included in which defines
\* without a top-level element refer to one another in a cycle of two or
\* more: no call ends by exhausting the call stack.
C38_Step16Terminates ==
    simp.stage \in {"step16", "step16 again"}
        => simp.out.thrown \in {"", "SchemaValidationError"}

(***************************************************************************)
(* The Validator's calls on its walker                                     *)
(***************************************************************************)

IsFireEvent(st) == st.op = "fireEvent"

\* The events the last callback fired at the walker, in order.
FiredEvents == [i \in 1..Len(SelectSeq(validator.calls, IsFireEvent)) |->
                   SelectSeq(validator.calls, IsFireEvent)[i].e]

RECURSIVE Concatenated(_)
\* The chunks of text as one string.
Concatenated(chunks) ==
    IF chunks = <<>> THEN <<>> ELSE Head(chunks) \o Concatenated(Tail(chunks))

IsTagEvent(e) == e.name \in {"startTagAndAttributes", "endTag"}

\* C39: whatever the sequence of onopentag, ontext and onclosetag callbacks,
\* the Validator fires no empty text event and no two text events in a row:
\* ontext fires nothing; the chunks handed over since the last tag callback
\* are fired, concatenated, as one text event, the first event of the next
\* onopentag or onclosetag, and the event that follows it is that
\* callback's start-tag or end-tag event (a close tag with no open element
\* throws before it fires one).
C39_TextFiredOnce ==
    /\ driver.callback.cb = "ontext" => FiredEvents = <<>>
    /\ \A i \in 1..Len(FiredEvents) :
          FiredEvents[i].name = "text" =>
             /\ FiredEvents[i].text # <<>>
             /\ i = 1
             /\ driver.before # "text"
             /\ FiredEvents[i].text = Concatenated(driver.flushed)
             /\ IF validator.thrown = "stack underflow"
                THEN Len(FiredEvents) = 1
                ELSE Len(FiredEvents) = 2 /\ IsTagEvent(FiredEvents[2])
    /\ (driver.callback.cb \in {"onopentag", "onclosetag"}
           /\ Concatenated(driver.flushed) # <<>>)
          => (FiredEvents # <<>> /\ FiredEvents[1].name = "text")
    /\ driver.callback.cb = "ontext"
          => validator.textBuf = Concatenated(driver.chunks)
    /\ validator.thrown # "firing empty text events makes no sense"

\* Two chunks of text were handed over and the next tag callback fired them
\* as one text event before its tag event.
C39_Witness ==
    /\ driver.callback.cb = "onopentag"
    /\ Len(driver.flushed) = 2
    /\ Len(Head(driver.flushed)) = 1
    /\ Len(FiredEvents) = 2
    /\ FiredEvents[1].name = "text"
    /\ Len(FiredEvents[1].text) = 2
    /\ FiredEvents[2].name = "startTagAndAttributes"

\* The positions in the last callback's calls on the walker of the calls
\* named op.
CallsOf(op) == {i \in 1..Len(validator.calls) : validator.calls[i].op = op}

\* The positions of the tag events the last callback fired.
TagEventCalls ==
    {i \in CallsOf("fireEvent") : IsTagEvent(validator.calls[i].e)}

\* Does the tag carry an xmlns declaration?
Declares(node) ==
    \E i \in 1..Len(node.attributes) :
       \/ node.attributes[i].name = "xmlns"
       \/ node.attributes[i].prefix = "xmlns"

\* C40: over well-nested open and close tags the Validator calls
\* enterContext at most once per element, only for an element that carries
\* xmlns declarations and before the element's start-tag event is fired; it
\* calls leaveContext at the matching close tag, after the endTag event,
\* exactly when it called enterContext for that element; and a close tag
\* with no open element fails with "stack underflow".
C40_ContextsPaired ==
    /\ driver.callback.cb = "onopentag" =>
          /\ Cardinality(CallsOf("enterContext")) =
                (IF Declares(driver.callback.node) THEN 1 ELSE 0)
          /\ Cardinality(TagEventCalls) = 1
          /\ \A i \in CallsOf("enterContext") \cup CallsOf("definePrefix") :
                \A j \in TagEventCalls : i < j
          /\ \A i \in CallsOf("definePrefix") :
                \E j \in CallsOf("enterContext") : j < i
          /\ CallsOf("leaveContext") = {}
    /\ (driver.callback.cb = "onclosetag" /\ driver.closed.some) =>
          /\ validator.thrown = ""
          /\ Cardinality(TagEventCalls) = 1
          /\ Cardinality(CallsOf("leaveContext")) =
                (IF driver.closed.entered THEN 1 ELSE 0)
          /\ \A i \in CallsOf("leaveContext") : \A j \in TagEventCalls : j < i
          /\ CallsOf("enterContext") \cup CallsOf("definePrefix") = {}
    /\ (driver.callback.cb = "onclosetag" /\ ~driver.closed.some) =>
          /\ validator.thrown = "stack underflow"
          /\ TagEventCalls = {}
          /\ CallsOf("enterContext") \cup CallsOf("leaveContext") = {}
    /\ driver.callback.cb = "ontext" => validator.calls = <<>>
    /\ validator.thrown = "" =>
          validator.contextStack =
             [i \in 1..Len(driver.open) |-> driver.open[i].entered]

\* An element with declarations was opened inside one without, and closed:
\* leaveContext was called after its endTag event, and the outer element is
\* still open.
C40_Witness ==
    /\ driver.callback.cb = "onclosetag"
    /\ driver.closed.some
    /\ driver.closed.entered
    /\ Len(driver.open) = 1
    /\ ~Head(driver.open).entered
    /\ CallsOf("leaveContext") # {}

====
